---- MODULE Spec2Model ----
(***************************************************************************)
(* A model of the request/response protocol layer of the Yandex Webmaster  *)
(* API client: the error-code taxonomy (error.rs), the authentication      *)
(* middleware (middleware.rs) and the client facade with its generic       *)
(* GET/POST/DELETE helpers and response classifier (client.rs).            *)
(*                                                                         *)
(* Text is modelled as TLA+ strings handled character by character (Len,   *)
(* Head, Tail, SubSeq and \o on strings), so that formatting, renaming,    *)
(* trimming and JSON decoding are computed rather than assumed.            *)
(***************************************************************************)
EXTENDS Integers, Sequences, FiniteSets, TLC

(***************************************************************************)
(* Characters and strings                                                  *)
(***************************************************************************)
UpperAlphabet == "ABCDEFGHIJKLMNOPQRSTUVWXYZ"

LowerAlphabet == "abcdefghijklmnopqrstuvwxyz"

DigitAlphabet == "0123456789"

\* The 1-based position of character c in string s, 0 when it is not there.
RECURSIVE IndexFrom(_, _, _)
IndexFrom(c, s, i) ==
    IF i > Len(s) THEN 0
    ELSE IF SubSeq(s, i, i) = c THEN i
    ELSE IndexFrom(c, s, i + 1)

IndexOf(c, s) == IndexFrom(c, s, 1)

IsUpper(c) == IndexOf(c, UpperAlphabet) > 0

IsDigit(c) == IndexOf(c, DigitAlphabet) > 0

\* char::to_ascii_lowercase
ToAsciiLower(c) ==
    LET i == IndexOf(c, UpperAlphabet)
    IN  IF i > 0 THEN SubSeq(LowerAlphabet, i, i) ELSE c

\* char::to_ascii_uppercase
ToAsciiUpper(c) ==
    LET i == IndexOf(c, LowerAlphabet)
    IN  IF i > 0 THEN SubSeq(UpperAlphabet, i, i) ELSE c

RECURSIVE MapUpper(_)
MapUpper(s) ==
    IF s = "" THEN "" ELSE ToAsciiUpper(Head(s)) \o MapUpper(Tail(s))

StartsWith(s, p) == Len(s) >= Len(p) /\ SubSeq(s, 1, Len(p)) = p

EndsWith(s, p) ==
    Len(s) >= Len(p) /\ SubSeq(s, Len(s) - Len(p) + 1, Len(s)) = p

\* TRUE iff p occurs in s as a substring
Contains(s, p) ==
    \E i \in 1..(Len(s) - Len(p) + 1) : SubSeq(s, i, i + Len(p) - 1) = p

\* str::trim_matches(c): strips every leading and every trailing c
RECURSIVE TrimStart(_, _)
TrimStart(s, c) ==
    IF s /= "" /\ Head(s) = c THEN TrimStart(Tail(s), c) ELSE s

RECURSIVE TrimEnd(_, _)
TrimEnd(s, c) ==
    IF s /= "" /\ SubSeq(s, Len(s), Len(s)) = c
    THEN TrimEnd(SubSeq(s, 1, Len(s) - 1), c)
    ELSE s

TrimMatches(s, c) == TrimEnd(TrimStart(s, c), c)

(***************************************************************************)
(* error.rs: the error-code taxonomy                                       *)
(***************************************************************************)
\* The unit variants of YandexErrorCode, in declaration order.
KnownVariants ==
    << "EmptyDates", "EmptyPaths", "EntityValidationError",
       "FieldValidationError", "InvalidUrl", "NoChanges",
       "SomeDatesAreUnavailable", "UrlsAreCorrupted", "WrongRegion",
       "AccessForbidden", "InvalidOauthToken", "InvalidUserId",
       "HostsLimitExceeded", "FeedsLimitExceeded", "BatchLimitExceeded",
       "FeedsCategoryBan", "LimitsExceeded",
       "ResourceNotFound", "HostNotIndexed", "HostNotLoaded",
       "HostNotVerified", "HostNotFound", "SitemapNotFound",
       "SitemapNotAdded", "TaskNotFound", "QueryIdNotFound", "BadHttpCode",
       "BadMimeType", "RequestNotFound", "TimedOut", "FeedAlreadyAdded",
       "OnlyHttps", "ManyUrlsForRemove", "IncorrectUrl", "NotExist",
       "MethodNotAllowed",
       "ContentTypeUnsupported",
       "UrlAlreadyAdded", "HostAlreadyAdded",
       "VerificationAlreadyInProgress", "TextAlreadyAdded",
       "SitemapAlreadyAdded",
       "UploadAddressExpired",
       "RequestEntityTooLarge", "PayloadTooLarge",
       "ContentEncodingUnsupported",
       "TextLengthConstraintsViolation", "NoVerificationRecord",
       "QuotaExceeded", "TooManyRequestsError" >>

KnownVariantSet == { KnownVariants[i] : i \in DOMAIN KnownVariants }

\* A value of YandexErrorCode: a unit variant, or Unknown(String).
Known(v) == [variant |-> v, raw |-> ""]

Unknown(s) == [variant |-> "Unknown", raw |-> s]

\* serde's rename rule "snake_case" for a variant name: an underscore before
\* every upper-case character but the first, every character lower-cased.
RECURSIVE SnakeFrom(_, _)
SnakeFrom(name, i) ==
    IF i > Len(name) THEN ""
    ELSE LET ch == SubSeq(name, i, i)
         IN  (IF i > 1 /\ IsUpper(ch) THEN "_" ELSE "")
             \o ToAsciiLower(ch) \o SnakeFrom(name, i + 1)

\* #[serde(rename_all = "SCREAMING_SNAKE_CASE")]
ScreamingSnakeCaseMutUpperCase(name) == MapUpper(name)

ScreamingSnakeCase(name) == MapUpper(SnakeFrom(name, 1))

\* The wire name of every unit variant.
WireName == [ v \in KnownVariantSet |-> ScreamingSnakeCase(v) ]

ClosedSet == { WireName[v] : v \in KnownVariantSet }

(***************************************************************************)
(* JSON text, as serde_json reads it.  A value is a record with the same   *)
(* fields whatever its type: t (the JSON type), s (a string's text), n (a  *)
(* number's value, or 1/0 for true/false) and items (an array's elements,  *)
(* or an object's members as <<key, value>> pairs in document order).      *)
(* Modelled subset: integers without exponent, strings with the escapes    *)
(* \" \\ \/ \n \t.                                                         *)
(***************************************************************************)
JNull == [t |-> "null", s |-> "", n |-> 0, items |-> <<>>]

JBool(b) == [t |-> "bool", s |-> "", n |-> IF b THEN 1 ELSE 0, items |-> <<>>]

JNum(k) == [t |-> "num", s |-> "", n |-> k, items |-> <<>>]

JStr(x) == [t |-> "str", s |-> x, n |-> 0, items |-> <<>>]

JArr(xs) == [t |-> "arr", s |-> "", n |-> 0, items |-> xs]

JObj(ms) == [t |-> "obj", s |-> "", n |-> 0, items |-> ms]

ParseOk(v, r) == [ok |-> TRUE, val |-> v, rest |-> r]

ParseFail == [ok |-> FALSE, val |-> JNull, rest |-> ""]

JsonWhitespace == {" ", "\n", "\t", "\r"}

RECURSIVE SkipWs(_)
SkipWs(s) ==
    IF s /= "" /\ Head(s) \in JsonWhitespace THEN SkipWs(Tail(s)) ELSE s

\* The characters of a string after its opening quote; acc is what was read.
RECURSIVE ParseStringBody(_, _)
ParseStringBody(s, acc) ==
    IF s = "" THEN ParseFail
    ELSE LET c == Head(s)
         IN  IF c = "\"" THEN ParseOk(JStr(acc), Tail(s))
             ELSE IF c = "\\"
             THEN IF Len(s) < 2 THEN ParseFail
                  ELSE LET e == SubSeq(s, 2, 2)
                           r == SubSeq(s, 3, Len(s))
                       IN  IF e \in {"\"", "\\", "/"}
                           THEN ParseStringBody(r, acc \o e)
                           ELSE IF e = "n" THEN ParseStringBody(r, acc \o "\n")
                           ELSE IF e = "t" THEN ParseStringBody(r, acc \o "\t")
                           ELSE ParseFail
             ELSE IF c \in {"\n", "\t", "\r"} THEN ParseFail
             ELSE ParseStringBody(Tail(s), acc \o c)

\* The digits at the head of s: <<value, number of digits>>.
RECURSIVE ParseDigits(_, _, _)
ParseDigits(s, acc, k) ==
    IF s /= "" /\ IsDigit(Head(s))
    THEN ParseDigits(Tail(s), acc * 10 + (IndexOf(Head(s), DigitAlphabet) - 1),
                     k + 1)
    ELSE <<acc, k>>

ParseNumber(s) ==
    LET neg    == Head(s) = "-"
        body   == IF neg THEN Tail(s) ELSE s
        d      == ParseDigits(body, 0, 0)
        rest   == SubSeq(body, d[2] + 1, Len(body))
    IN  IF d[2] = 0 THEN ParseFail
        ELSE IF d[2] > 1 /\ Head(body) = "0" THEN ParseFail
        ELSE ParseOk(JNum(IF neg THEN 0 - d[1] ELSE d[1]), rest)

\* A container being read: an array with the elements read so far, or an
\* object with the members read so far and the key of the member being read.
Frame(kind, items, key) == [kind |-> kind, items |-> items, key |-> key]

\* The parser proper, as serde_json's Deserializer reads a document: open
\* holds the containers not yet closed, innermost last.  mode is "value"
\* (a value is expected), "key" (a member's key is expected) or "after" (the
\* value v was just read and is put where it belongs).
RECURSIVE ParseRun(_, _, _, _)
ParseRun(s0, open, mode, v) ==
    LET s == SkipWs(s0)
    IN  IF mode = "after" /\ open = <<>> THEN ParseOk(v, s0)
        ELSE IF s = "" THEN ParseFail
        ELSE IF mode = "value"
        THEN IF Head(s) = "\""
             THEN LET str == ParseStringBody(Tail(s), "")
                  IN  IF str.ok THEN ParseRun(str.rest, open, "after", str.val)
                      ELSE ParseFail
             ELSE IF Head(s) = "{"
             THEN IF SkipWs(Tail(s)) /= "" /\ Head(SkipWs(Tail(s))) = "}"
                  THEN ParseRun(Tail(SkipWs(Tail(s))), open, "after", JObj(<<>>))
                  ELSE ParseRun(Tail(s), Append(open, Frame("obj", <<>>, "")),
                                "key", JNull)
             ELSE IF Head(s) = "["
             THEN IF SkipWs(Tail(s)) /= "" /\ Head(SkipWs(Tail(s))) = "]"
                  THEN ParseRun(Tail(SkipWs(Tail(s))), open, "after", JArr(<<>>))
                  ELSE ParseRun(Tail(s), Append(open, Frame("arr", <<>>, "")),
                                "value", JNull)
             ELSE IF Head(s) = "-" \/ IsDigit(Head(s))
             THEN LET num == ParseNumber(s)
                  IN  IF num.ok THEN ParseRun(num.rest, open, "after", num.val)
                      ELSE ParseFail
             ELSE IF StartsWith(s, "true")
             THEN ParseRun(SubSeq(s, 5, Len(s)), open, "after", JBool(TRUE))
             ELSE IF StartsWith(s, "false")
             THEN ParseRun(SubSeq(s, 6, Len(s)), open, "after", JBool(FALSE))
             ELSE IF StartsWith(s, "null")
             THEN ParseRun(SubSeq(s, 5, Len(s)), open, "after", JNull)
             ELSE ParseFail
        ELSE IF mode = "key"
        THEN IF Head(s) /= "\"" THEN ParseFail
             ELSE LET key == ParseStringBody(Tail(s), "")
                  IN  IF ~key.ok \/ SkipWs(key.rest) = ""
                         \/ Head(SkipWs(key.rest)) /= ":"
                      THEN ParseFail
                      ELSE ParseRun(Tail(SkipWs(key.rest)),
                                    [open EXCEPT ![Len(open)].key = key.val.s],
                                    "value", JNull)
        ELSE LET top   == open[Len(open)]
                 below == SubSeq(open, 1, Len(open) - 1)
                 items == Append(top.items,
                                 IF top.kind = "obj" THEN <<top.key, v>> ELSE v)
             IN  IF Head(s) = ","
                 THEN ParseRun(Tail(s), Append(below, Frame(top.kind, items, "")),
                               IF top.kind = "obj" THEN "key" ELSE "value", JNull)
                 ELSE IF top.kind = "obj" /\ Head(s) = "}"
                 THEN ParseRun(Tail(s), below, "after", JObj(items))
                 ELSE IF top.kind = "arr" /\ Head(s) = "]"
                 THEN ParseRun(Tail(s), below, "after", JArr(items))
                 ELSE ParseFail

ParseValue(s) == ParseRun(s, <<>>, "value", JNull)

\* serde_json::from_str: one value, then nothing but whitespace.
WholeDocument(r) == IF r.ok /\ SkipWs(r.rest) = "" THEN r ELSE ParseFail

ParseJson(text) == WholeDocument(ParseValue(text))

(***************************************************************************)
(* serde-derived decoding of JSON values into the crate's types            *)
(***************************************************************************)
\* The number of members of an object with key k.
RECURSIVE CountKey(_, _)
CountKey(ms, k) ==
    IF ms = <<>> THEN 0
    ELSE (IF Head(ms)[1] = k THEN 1 ELSE 0) + CountKey(Tail(ms), k)

HasKey(ms, k) == CountKey(ms, k) > 0

\* The value of the first member with key k (the object has one).
RECURSIVE ValueOf(_, _)
ValueOf(ms, k) ==
    IF Head(ms)[1] = k THEN Head(ms)[2] ELSE ValueOf(Tail(ms), k)

\* A derived struct visitor reads an object whose named fields occur at most
\* once (a repeated field is an error; fields it does not name are skipped).
NoDuplicateField(ms, fields) == \A f \in fields : CountKey(ms, f) <= 1

AllStrings(xs) == \A i \in DOMAIN xs : xs[i].t = "str"

StringsOf(xs) == [ i \in DOMAIN xs |-> xs[i].s ]

None(dflt) == [some |-> FALSE, v |-> dflt]

Some(x) == [some |-> TRUE, v |-> x]

CodeFail == [ok |-> FALSE, code |-> Unknown("")]

\* The unit variant whose wire name is s (s is in the closed set).
VariantNamed(s) == CHOOSE v \in KnownVariantSet : WireName[v] = s

\* YandexErrorCode's Deserialize: the unit variants by their wire names first
\* (a string, or the externally tagged form {"NAME": null}), then the untagged
\* variant Unknown(String), which takes any string.
DecodeErrorCodeMutNoFallback(j) ==
    IF j.t = "str" /\ j.s \in ClosedSet
    THEN [ok |-> TRUE, code |-> Known(VariantNamed(j.s))]
    ELSE CodeFail

DecodeErrorCodeMutIgnoreCase(j) ==
    IF j.t = "str" /\ MapUpper(j.s) \in ClosedSet
    THEN [ok |-> TRUE, code |-> Known(VariantNamed(MapUpper(j.s)))]
    ELSE IF j.t = "str" THEN [ok |-> TRUE, code |-> Unknown(j.s)]
    ELSE CodeFail

DecodeErrorCode(j) ==
    IF j.t = "str" /\ j.s \in ClosedSet
    THEN [ok |-> TRUE, code |-> Known(VariantNamed(j.s))]
    ELSE IF j.t = "obj" /\ Len(j.items) = 1 /\ j.items[1][1] \in ClosedSet
            /\ j.items[1][2].t = "null"
    THEN [ok |-> TRUE, code |-> Known(VariantNamed(j.items[1][1]))]
    ELSE IF j.t = "str" THEN [ok |-> TRUE, code |-> Unknown(j.s)]
    ELSE CodeFail

\* Option<Vec<String>>
DecodeOptStrings(j) ==
    IF j.t = "null" THEN [ok |-> TRUE, opt |-> None(<<>>)]
    ELSE IF j.t = "arr" /\ AllStrings(j.items)
    THEN [ok |-> TRUE, opt |-> Some(StringsOf(j.items))]
    ELSE [ok |-> FALSE, opt |-> None(<<>>)]

\* Option<String>
DecodeOptString(j) ==
    IF j.t = "null" THEN [ok |-> TRUE, opt |-> None("")]
    ELSE IF j.t = "str" THEN [ok |-> TRUE, opt |-> Some(j.s)]
    ELSE [ok |-> FALSE, opt |-> None("")]

NoErrorResponse ==
    [ok |-> FALSE, error_code |-> Unknown(""), error_message |-> "",
     acceptable_types |-> None(<<>>), valid_until |-> None("")]

ErrorResponseFields ==
    {"error_code", "error_message", "acceptable_types", "valid_until"}

\* YandexApiErrorResponse from its four values in field order (j3, j4 are
\* JNull for an optional field the object does not have).
ErrorResponseOf(j1, j2, j3, j4) ==
    LET c == DecodeErrorCode(j1)
        a == DecodeOptStrings(j3)
        u == DecodeOptString(j4)
    IN  IF c.ok /\ j2.t = "str" /\ a.ok /\ u.ok
        THEN [ok |-> TRUE, error_code |-> c.code, error_message |-> j2.s,
              acceptable_types |-> a.opt, valid_until |-> u.opt]
        ELSE NoErrorResponse

\* YandexApiErrorResponse's derived Deserialize: an object with error_code and
\* error_message (the optional fields may be absent or null; members of
\* other names are skipped), or an array of exactly the four fields in order.
DecodeErrorResponseMutDenyUnknown(j) ==
    IF j.t = "obj"
    THEN IF /\ NoDuplicateField(j.items, ErrorResponseFields)
            /\ HasKey(j.items, "error_code") /\ HasKey(j.items, "error_message")
            /\ \A i \in 1..Len(j.items) : j.items[i][1] \in ErrorResponseFields
         THEN ErrorResponseOf(
                  ValueOf(j.items, "error_code"), ValueOf(j.items, "error_message"),
                  IF HasKey(j.items, "acceptable_types")
                  THEN ValueOf(j.items, "acceptable_types") ELSE JNull,
                  IF HasKey(j.items, "valid_until")
                  THEN ValueOf(j.items, "valid_until") ELSE JNull)
         ELSE NoErrorResponse
    ELSE IF j.t = "arr" /\ Len(j.items) = 4
    THEN ErrorResponseOf(j.items[1], j.items[2], j.items[3], j.items[4])
    ELSE NoErrorResponse

DecodeErrorResponse(j) ==
    IF j.t = "obj"
    THEN LET ms == j.items
         IN  IF NoDuplicateField(ms, ErrorResponseFields)
                /\ HasKey(ms, "error_code") /\ HasKey(ms, "error_message")
             THEN ErrorResponseOf(
                      ValueOf(ms, "error_code"), ValueOf(ms, "error_message"),
                      IF HasKey(ms, "acceptable_types")
                      THEN ValueOf(ms, "acceptable_types") ELSE JNull,
                      IF HasKey(ms, "valid_until")
                      THEN ValueOf(ms, "valid_until") ELSE JNull)
             ELSE NoErrorResponse
    ELSE IF j.t = "arr" /\ Len(j.items) = 4
    THEN ErrorResponseOf(j.items[1], j.items[2], j.items[3], j.items[4])
    ELSE NoErrorResponse

\* serde_json::from_str::<YandexApiErrorResponse>(text)
ErrorResponseOfParsed(r) ==
    IF r.ok THEN DecodeErrorResponse(r.val) ELSE NoErrorResponse

ErrorResponseFromStr(text) == ErrorResponseOfParsed(ParseJson(text))

\* impl fmt::Display for YandexErrorCode: Unknown(s) writes s; a unit variant
\* writes its JSON serialization (the quoted wire name) with the quotes
\* trimmed off.
SerializeJsonCode(code) == "\"" \o WireName[code.variant] \o "\""

DisplayCodeMutQuoted(code) ==
    IF code.variant = "Unknown" THEN code.raw ELSE SerializeJsonCode(code)

DisplayCode(code) ==
    IF code.variant = "Unknown" THEN code.raw
    ELSE TrimMatches(SerializeJsonCode(code), "\"")

\* What a call returns on success, whatever its type: the user_id of
\* UserResponse in n, the host_id of AddHostResponse in s, the hosts of
\* HostsResponse or the one FullHostInfo in list; all empty for ().
NoValue == [n |-> 0, s |-> "", list |-> <<>>]

Decoded(value) == [ok |-> TRUE, value |-> value]

NotDecoded == [ok |-> FALSE, value |-> NoValue]

\* UserResponse's derived Deserialize: {"user_id": <i64>}, or the array form.
DecodeUserResponse(j) ==
    IF j.t = "obj" /\ CountKey(j.items, "user_id") = 1
       /\ ValueOf(j.items, "user_id").t = "num"
    THEN Decoded([NoValue EXCEPT !.n = ValueOf(j.items, "user_id").n])
    ELSE IF j.t = "arr" /\ Len(j.items) = 1 /\ j.items[1].t = "num"
    THEN Decoded([NoValue EXCEPT !.n = j.items[1].n])
    ELSE NotDecoded

\* AddHostResponse's derived Deserialize: {"host_id": <string>}.
DecodeAddHostResponse(j) ==
    IF j.t = "obj" /\ CountKey(j.items, "host_id") = 1
       /\ ValueOf(j.items, "host_id").t = "str"
    THEN Decoded([NoValue EXCEPT !.s = ValueOf(j.items, "host_id").s])
    ELSE IF j.t = "arr" /\ Len(j.items) = 1 /\ j.items[1].t = "str"
    THEN Decoded([NoValue EXCEPT !.s = j.items[1].s])
    ELSE NotDecoded

\* Option<String> field f of an object: absent or null is None.
OptStringField(ms, f) ==
    IF HasKey(ms, f) THEN DecodeOptString(ValueOf(ms, f))
    ELSE [ok |-> TRUE, opt |-> None("")]

\* The wire names of HostDataStatus (NotIndexed, NotLoaded, Ok).
HostDataStatusNames ==
    { ScreamingSnakeCase(v) : v \in {"NotIndexed", "NotLoaded", "Ok"} }

HostInfoFields ==
    {"host_id", "ascii_host_url", "unicode_host_url", "verified", "main_mirror"}

FullHostInfoFields ==
    HostInfoFields \cup {"host_data_status", "host_display_name"}

NoHostInfo == [ok |-> FALSE, info |-> <<>>]

HostList(d) == IF d.ok THEN Decoded([NoValue EXCEPT !.list = d.info]) ELSE NotDecoded

\* HostInfo's derived Deserialize (object form), and FullHostInfo's when full:
\* three strings and a boolean are required, main_mirror is an optional
\* HostInfo, and FullHostInfo has two more optional fields.  The decoded
\* record holds main_mirror as a sequence of no or one HostInfo.
RECURSIVE DecodeHostInfo(_, _)
DecodeHostInfo(j, full) ==
    IF j.t /= "obj" THEN NoHostInfo
    ELSE LET ms == j.items
             strs == {"host_id", "ascii_host_url", "unicode_host_url"}
         IN  IF ~NoDuplicateField(ms, IF full THEN FullHostInfoFields
                                               ELSE HostInfoFields)
                \/ \E f \in strs \cup {"verified"} : ~HasKey(ms, f)
             THEN NoHostInfo
             ELSE IF (\E f \in strs : ValueOf(ms, f).t /= "str")
                     \/ ValueOf(ms, "verified").t /= "bool"
             THEN NoHostInfo
             ELSE LET mm == IF HasKey(ms, "main_mirror")
                               /\ ValueOf(ms, "main_mirror").t /= "null"
                            THEN DecodeHostInfo(ValueOf(ms, "main_mirror"), FALSE)
                            ELSE [ok |-> TRUE, info |-> <<>>]
                      st == IF full THEN OptStringField(ms, "host_data_status")
                            ELSE [ok |-> TRUE, opt |-> None("")]
                      dn == IF full THEN OptStringField(ms, "host_display_name")
                            ELSE [ok |-> TRUE, opt |-> None("")]
                  IN  IF ~mm.ok \/ ~st.ok \/ ~dn.ok
                         \/ (st.opt.some /\ st.opt.v \notin HostDataStatusNames)
                      THEN NoHostInfo
                      ELSE [ok   |-> TRUE,
                            info |-> << [host_id          |-> ValueOf(ms, "host_id").s,
                                         ascii_host_url   |-> ValueOf(ms, "ascii_host_url").s,
                                         unicode_host_url |-> ValueOf(ms, "unicode_host_url").s,
                                         verified         |-> ValueOf(ms, "verified").n = 1,
                                         main_mirror      |-> mm.info,
                                         host_data_status |-> st.opt,
                                         host_display_name |-> dn.opt] >>]

ConsHosts(h, r) ==
    IF h.ok /\ r.ok THEN [ok |-> TRUE, info |-> h.info \o r.info] ELSE NoHostInfo

\* Vec<HostInfo>: every element decodes.
RECURSIVE DecodeHostList(_)
DecodeHostList(xs) ==
    IF xs = <<>> THEN [ok |-> TRUE, info |-> <<>>]
    ELSE ConsHosts(DecodeHostInfo(Head(xs), FALSE), DecodeHostList(Tail(xs)))

\* HostsResponse's derived Deserialize: {"hosts": [<HostInfo>, ...]}.
DecodeHostsResponse(j) ==
    IF j.t = "obj" /\ CountKey(j.items, "hosts") = 1
       /\ ValueOf(j.items, "hosts").t = "arr"
    THEN HostList(DecodeHostList(ValueOf(j.items, "hosts").items))
    ELSE NotDecoded

(***************************************************************************)
(* HTTP requests, headers and status codes                                 *)
(***************************************************************************)
\* StatusCode::is_success: 200..=299
IsSuccess(status) == 200 <= status /\ status <= 299

\* StatusCode's canonical reason phrase, for the statuses of the model.
CanonicalReason(status) ==
    CASE status = 200 -> "OK"
      [] status = 300 -> "Multiple Choices"
      [] status = 403 -> "Forbidden"
      [] status = 500 -> "Internal Server Error"
      [] OTHER        -> "<unknown status code>"

\* StatusCode's Display: the number, then the canonical reason.
StatusDisplay(status) == ToString(status) \o " " \o CanonicalReason(status)

\* A header map is a sequence of <<name, value>> pairs; names are lower-case.
RECURSIVE RemoveHeader(_, _)
RemoveHeader(hs, name) ==
    IF hs = <<>> THEN <<>>
    ELSE IF Head(hs)[1] = name THEN RemoveHeader(Tail(hs), name)
    ELSE <<Head(hs)>> \o RemoveHeader(Tail(hs), name)

\* HeaderMap::insert: the value replaces every value the name had.
HeaderInsertMutAppend(hs, name, value) == Append(hs, <<name, value>>)

HeaderInsert(hs, name, value) ==
    Append(RemoveHeader(hs, name), <<name, value>>)

\* HeaderMap::get_all(name), as a sequence of values.
RECURSIVE HeaderValues(_, _)
HeaderValues(hs, name) ==
    IF hs = <<>> THEN <<>>
    ELSE (IF Head(hs)[1] = name THEN <<Head(hs)[2]>> ELSE <<>>)
         \o HeaderValues(Tail(hs), name)

\* Characters HeaderValue::from_str rejects (bytes below 32 other than tab,
\* and 127), as far as a TLA+ string can hold them.
InvalidHeaderChars == {"\n", "\r", "\f"}

\* HeaderValue::from_str(s).is_ok()
IsValidHeaderValue(s) ==
    \A i \in 1..Len(s) : SubSeq(s, i, i) \notin InvalidHeaderChars

Request(method, url, headers, body) ==
    [method |-> method, url |-> url, headers |-> headers, body |-> body]

(***************************************************************************)
(* middleware.rs: AuthMiddleware                                           *)
(***************************************************************************)
\* format!("OAuth {}", self.oauth_token)
AuthHeaderValue(oauth_token) == "OAuth " \o oauth_token

\* AuthMiddleware::handle: inserts the Authorization header and runs the next
\* layer on the request (next |-> TRUE, with the request handed over), or
\* fails with a middleware error without running it.
HandleMutClearsHeaders(oauth_token, req) ==
    IF IsValidHeaderValue(AuthHeaderValue(oauth_token))
    THEN [next |-> TRUE,
          req  |-> [req EXCEPT !.headers =
                      << <<"authorization", AuthHeaderValue(oauth_token)>> >>]]
    ELSE [next |-> FALSE, req |-> req]

HandleMutSendUnauthorized(oauth_token, req) ==
    IF IsValidHeaderValue(AuthHeaderValue(oauth_token))
    THEN [next |-> TRUE,
          req  |-> [req EXCEPT !.headers =
                      HeaderInsert(@, "authorization",
                                   AuthHeaderValue(oauth_token))]]
    ELSE [next |-> TRUE, req |-> req]

Handle(oauth_token, req) ==
    IF IsValidHeaderValue(AuthHeaderValue(oauth_token))
    THEN [next |-> TRUE,
          req  |-> [req EXCEPT !.headers =
                      HeaderInsert(@, "authorization",
                                   AuthHeaderValue(oauth_token))]]
    ELSE [next |-> FALSE, req |-> req]

(***************************************************************************)
(* error.rs: YandexWebmasterError, and the outcome of a call               *)
(***************************************************************************)
\* An outcome is Ok(value) or Err(YandexWebmasterError); kind is "Ok" or the
\* name of the error variant.
Outcome(kind, status, response, msg, value) ==
    [kind |-> kind, status |-> status, response |-> response, msg |-> msg,
     value |-> value]

NoOutcome == Outcome("none", 0, NoErrorResponse, "", NoValue)

Ok(value) == Outcome("Ok", 0, NoErrorResponse, "", value)

\* YandexWebmasterError::ApiError { status, response }
ApiError(status, response) ==
    Outcome("ApiError", status, response, "", NoValue)

\* YandexWebmasterError::GenericApiError(String)
GenericApiError(msg) == Outcome("GenericApiError", 0, NoErrorResponse, msg, NoValue)

\* YandexWebmasterError::HttpError(reqwest::Error), by `?` on a reqwest::Error
HttpError(msg) == Outcome("HttpError", 0, NoErrorResponse, msg, NoValue)

\* YandexWebmasterError::MiddlewareHttpError(reqwest_middleware::Error), by
\* `?` on the error of send()
MiddlewareHttpError(msg) ==
    Outcome("MiddlewareHttpError", 0, NoErrorResponse, msg, NoValue)

\* YandexWebmasterError::SerdeQsError(serde_qs::Error), by `?` on the error
\* of serialize_string
SerdeQsError(msg) == Outcome("SerdeQsError", 0, NoErrorResponse, msg, NoValue)

\* YandexWebmasterError::ParseError(serde_json::Error), by `?` on the error
\* of serde_json::to_string / to_value
ParseErrorVariant(msg) == Outcome("ParseError", 0, NoErrorResponse, msg, NoValue)

IsErr(o) == o.kind \notin {"none", "Ok"}

\* to_string() of a YandexWebmasterError with the code left out of the
\* structured error.
DisplayErrorMutNoCode(o) ==
    CASE o.kind = "ApiError" -> "API error: " \o o.response.error_message
      [] o.kind = "GenericApiError" -> "API error: " \o o.msg
      [] OTHER -> o.msg

\* to_string() of a YandexWebmasterError: the #[error(..)] format of its
\* variant.
DisplayError(o) ==
    CASE o.kind = "HttpError" -> "HTTP request failed: " \o o.msg
      [] o.kind = "MiddlewareHttpError" -> "Middleware request failed: " \o o.msg
      [] o.kind = "ParseError" -> "Failed to parse response: " \o o.msg
      [] o.kind = "SerdeQsError" -> "Failed serialize url: " \o o.msg
      [] o.kind = "ApiError" ->
            "API error (" \o DisplayCode(o.response.error_code) \o "): "
            \o o.response.error_message
      [] o.kind = "GenericApiError" -> "API error: " \o o.msg

(***************************************************************************)
(* client.rs: the response classifier and the generic helpers              *)
(***************************************************************************)
API_BASE_URL == "https://api.webmaster.yandex.net/v4"

\* The body of a response as the client gets it when it reads it: the text,
\* or a read failure with its description.
BodyText(text) == [read |-> TRUE, text |-> text]

BodyUnreadable(why) == [read |-> FALSE, text |-> why]

NoBody == [read |-> FALSE, text |-> ""]

\* YandexWebmasterClient::parse_error, once the text is read: api_error is
\* what serde_json::from_str::<YandexApiErrorResponse> made of it.
ClassifyTextMutStatusZero(status, error_text, api_error) ==
    IF api_error.ok THEN ApiError(0, api_error)
    ELSE GenericApiError(
             "Status: " \o StatusDisplay(status) \o ", Error: " \o error_text)

ClassifyTextMutDropText(status, error_text, api_error) ==
    IF api_error.ok THEN ApiError(status, api_error)
    ELSE GenericApiError("Status: " \o StatusDisplay(status))

ClassifyTextMutSecondOrder(status, error_text, api_error) ==
    IF api_error.ok THEN ApiError(status, api_error)
    ELSE ParseErrorVariant("expected value at line 1 column 1")

ClassifyText(status, error_text, api_error) ==
    IF api_error.ok THEN ApiError(status, api_error)
    ELSE GenericApiError(
             "Status: " \o StatusDisplay(status) \o ", Error: " \o error_text)

\* YandexWebmasterClient::parse_error
ParseErrorMutPropagate(status, body) ==
    IF body.read
    THEN ClassifyText(status, body.text, ErrorResponseFromStr(body.text))
    ELSE HttpError(body.text)

ParseError(status, body) ==
    IF body.read
    THEN ClassifyText(status, body.text, ErrorResponseFromStr(body.text))
    ELSE GenericApiError(
             "Status: " \o StatusDisplay(status)
             \o ", Failed to read error response: " \o body.text)

\* The operations of the model and what each decodes a success body into.
Ops == {"get_hosts", "add_host", "get_host", "delete_host"}

MethodOf(op) ==
    CASE op = "fetch_user"  -> "GET"
      [] op = "get_hosts"   -> "GET"
      [] op = "get_host"    -> "GET"
      [] op = "add_host"    -> "POST"
      [] op = "delete_host" -> "DELETE"

\* response.json::<T>() for the T of the operation: the decoded value, or
\* not ok when the text is not JSON of that shape.
DecodeParsed(op, r) ==
    IF ~r.ok THEN NotDecoded
    ELSE CASE op = "fetch_user" -> DecodeUserResponse(r.val)
           [] op = "get_hosts"  -> DecodeHostsResponse(r.val)
           [] op = "add_host"   -> DecodeAddHostResponse(r.val)
           [] op = "get_host"   -> HostList(DecodeHostInfo(r.val, TRUE))

DecodeSuccess(op, text) == DecodeParsed(op, ParseJson(text))

\* let data: T = response.json().await?; Ok(data)
JsonResultMutClassify(d) == IF d.ok THEN Ok(d.value) ELSE GenericApiError("decode")

JsonResult(d) == IF d.ok THEN Ok(d.value) ELSE HttpError("decode")

JsonOutcome(op, body) ==
    IF ~body.read THEN HttpError("body: " \o body.text)
    ELSE JsonResult(DecodeSuccess(op, body.text))

\* YandexWebmasterClient::handle_response, and the same test in fetch_user
HandleResponseMutBodyFirst(op, status, body) ==
    IF body.read /\ ErrorResponseFromStr(body.text).ok
    THEN ParseError(status, body)
    ELSE IF ~IsSuccess(status) THEN ParseError(status, body)
    ELSE JsonOutcome(op, body)

HandleResponse(op, status, body) ==
    IF ~IsSuccess(status) THEN ParseError(status, body)
    ELSE JsonOutcome(op, body)

\* YandexWebmasterClient::fetch_user, from the response on
FetchUserOutcomeMutTrustBody(status, body) == JsonOutcome("fetch_user", body)

FetchUserOutcome(status, body) ==
    IF ~IsSuccess(status) THEN ParseError(status, body)
    ELSE JsonOutcome("fetch_user", body)

\* YandexWebmasterClient::delete, from the response on: a success status is
\* Ok(()) and the body is not read.
DeleteOutcomeMutDecodes(status, body) ==
    IF ~IsSuccess(status) THEN ParseError(status, body)
    ELSE IF ~body.read THEN HttpError("body: " \o body.text)
    ELSE IF ParseJson(body.text).ok THEN Ok(NoValue)
    ELSE HttpError("decode")

DeleteOutcome(status, body) ==
    IF ~IsSuccess(status) THEN ParseError(status, body) ELSE Ok(NoValue)

\* Whether the call reads the body of a response with this status.
ReadsBody(op, status) == ~(MethodOf(op) = "DELETE" /\ IsSuccess(status))

\* The outcome of an operation from its response on, by the helper it uses.
OutcomeOf(op, status, body) ==
    IF op = "fetch_user" THEN FetchUserOutcome(status, body)
    ELSE IF MethodOf(op) = "DELETE" THEN DeleteOutcome(status, body)
    ELSE HandleResponse(op, status, body)

(***************************************************************************)
(* client.rs: the requests the methods build                               *)
(***************************************************************************)
\* serde_json's string escaping, for the characters a TLA+ string can hold.
RECURSIVE EscapeJson(_)
EscapeJson(s) ==
    IF s = "" THEN ""
    ELSE LET c == Head(s)
         IN  (CASE c = "\"" -> "\\\""
                [] c = "\\" -> "\\\\"
                [] c = "\n" -> "\\n"
                [] c = "\t" -> "\\t"
                [] c = "\r" -> "\\r"
                [] c = "\f" -> "\\f"
                [] OTHER    -> c) \o EscapeJson(Tail(s))

\* serde_json::to_string(&AddHostRequest { host_url, verification_type })
SerializeAddHostRequest(host_url, verification_type) ==
    "{\"host_url\":\"" \o EscapeJson(host_url)
    \o "\",\"verification_type\":\"" \o ScreamingSnakeCase(verification_type)
    \o "\"}"

\* fetch_user: format!("{}/user", API_BASE_URL)
UserUrl == API_BASE_URL \o "/user"

\* get_hosts, add_host: format!("{}/user/{}/hosts", API_BASE_URL, self.user_id)
HostsUrlMutNoUser(uid) == API_BASE_URL \o "/hosts"

HostsUrl(uid) == API_BASE_URL \o "/user/" \o ToString(uid) \o "/hosts"

\* get_host, delete_host:
\* format!("{}/user/{}/hosts/{}", API_BASE_URL, self.user_id, host_id)
HostUrl(uid, host_id) ==
    API_BASE_URL \o "/user/" \o ToString(uid) \o "/hosts/" \o host_id

\* post: self.client.post(url).header("Content-Type", "application/json")
\*       .body(json_body)
PostRequestMutNoContentType(url, json_body) == Request("POST", url, <<>>, json_body)

PostRequest(url, json_body) ==
    Request("POST", url, << <<"content-type", "application/json">> >>, json_body)

\* The request a method hands to its client: get(url), delete(url), or
\* post(url) with the Content-Type header and the JSON body.  arg is the
\* host_id of get_host and delete_host, the host_url of add_host.
BuildRequest(op, uid, arg) ==
    CASE op = "fetch_user"  -> Request("GET", UserUrl, <<>>, "")
      [] op = "get_hosts"   -> Request("GET", HostsUrl(uid), <<>>, "")
      [] op = "get_host"    -> Request("GET", HostUrl(uid, arg), <<>>, "")
      [] op = "delete_host" -> Request("DELETE", HostUrl(uid, arg), <<>>, "")
      [] op = "add_host"    ->
           PostRequest(HostsUrl(uid), SerializeAddHostRequest(arg, "Dns"))

(***************************************************************************)
(* dto.rs filters and the query encoder self.qs (serde_qs with             *)
(* ArrayFormat::Unindexed), as client.rs uses it                           *)
(***************************************************************************)
\* Values of the types filter fields have: a unit variant of an enum with
\* rename_all = "SCREAMING_SNAKE_CASE", a NaiveDate, a DateTime<Utc> (whole
\* seconds), an i32, a String.
EnumVal(name) == [ty |-> "enum", s |-> name, n |-> 0, d |-> <<>>]

DateVal(y, m, d) == [ty |-> "date", s |-> "", n |-> 0, d |-> <<y, m, d>>]

DateTimeVal(y, m, d, hh, mm, ss) ==
    [ty |-> "datetime", s |-> "", n |-> 0, d |-> <<y, m, d, hh, mm, ss>>]

IntVal(k) == [ty |-> "int", s |-> "", n |-> k, d |-> <<>>]

StrVal(x) == [ty |-> "str", s |-> x, n |-> 0, d |-> <<>>]

NoVal == StrVal("")

\* {:02}
Pad2(k) == IF k < 10 THEN "0" \o ToString(k) ELSE ToString(k)

\* {:04}, for the years of the model
Pad4(k) ==
    IF k < 10 THEN "000" \o ToString(k)
    ELSE IF k < 100 THEN "00" \o ToString(k)
    ELSE IF k < 1000 THEN "0" \o ToString(k)
    ELSE ToString(k)

\* What the value's Serialize hands to the serializer as text: the renamed
\* variant, chrono's %Y-%m-%d for NaiveDate, chrono's RFC 3339 text with Z
\* for DateTime<Utc>, the decimal digits of an integer, the string itself.
ScalarTextMutDateOnly(v) ==
    CASE v.ty = "enum"     -> ScreamingSnakeCase(v.s)
      [] v.ty = "date"     -> Pad4(v.d[1]) \o "-" \o Pad2(v.d[2]) \o "-" \o Pad2(v.d[3])
      [] v.ty = "datetime" -> Pad4(v.d[1]) \o "-" \o Pad2(v.d[2]) \o "-" \o Pad2(v.d[3])
      [] v.ty = "int"      -> ToString(v.n)
      [] v.ty = "str"      -> v.s

ScalarText(v) ==
    CASE v.ty = "enum"     -> ScreamingSnakeCase(v.s)
      [] v.ty = "date"     -> Pad4(v.d[1]) \o "-" \o Pad2(v.d[2]) \o "-" \o Pad2(v.d[3])
      [] v.ty = "datetime" ->
           Pad4(v.d[1]) \o "-" \o Pad2(v.d[2]) \o "-" \o Pad2(v.d[3]) \o "T"
           \o Pad2(v.d[4]) \o ":" \o Pad2(v.d[5]) \o ":" \o Pad2(v.d[6]) \o "Z"
      [] v.ty = "int"      -> ToString(v.n)
      [] v.ty = "str"      -> v.s

\* The characters the query encoder writes as they are.
QsLiteral == UpperAlphabet \o LowerAlphabet \o DigitAlphabet \o "*-._"

\* The encoder's text for one character: itself, + for a space, or % and
\* the two hex digits of its code (for the other characters of the model).
EncodeChar(c) ==
    IF IndexOf(c, QsLiteral) > 0 THEN c
    ELSE CASE c = " "  -> "+"
           [] c = ":"  -> "%3A"
           [] c = "/"  -> "%2F"
           [] c = "?"  -> "%3F"
           [] c = "&"  -> "%26"
           [] c = "="  -> "%3D"
           [] c = "+"  -> "%2B"
           [] c = "%"  -> "%25"
           [] c = "#"  -> "%23"
           [] c = ","  -> "%2C"
           [] c = "["  -> "%5B"
           [] c = "]"  -> "%5D"

RECURSIVE PercentEncode(_)
PercentEncode(s) ==
    IF s = "" THEN "" ELSE EncodeChar(Head(s)) \o PercentEncode(Tail(s))

\* A field of a filter: its name and its value, which is a required scalar,
\* an Option (with or without skip_serializing_if = "Option::is_none") or a
\* Vec.
ScalarField(key, v) ==
    [key |-> key, kind |-> "scalar", some |-> TRUE, skip |-> FALSE,
     v |-> v, items |-> <<>>]

OptionField(key, opt, skip) ==
    [key |-> key, kind |-> "opt", some |-> opt.some, skip |-> skip,
     v |-> opt.v, items |-> <<>>]

VecField(key, items) ==
    [key |-> key, kind |-> "vec", some |-> TRUE, skip |-> FALSE,
     v |-> NoVal, items |-> items]

\* dto.rs: SqiHistoryRequest
SqiHistoryRequest(date_from, date_to) ==
    << OptionField("date_from", date_from, FALSE),
       OptionField("date_to", date_to, FALSE) >>

\* dto.rs: PopularQueriesRequest (device_type_indicator, date_to and limit
\* are None in the model)
PopularQueriesRequest(order_by, query_indicator, date_from, offset) ==
    << ScalarField("order_by", order_by),
       OptionField("query_indicator", query_indicator, TRUE),
       OptionField("device_type_indicator", None(NoVal), TRUE),
       OptionField("date_from", date_from, TRUE),
       OptionField("date_to", None(NoVal), TRUE),
       OptionField("offset", offset, TRUE),
       OptionField("limit", None(NoVal), TRUE) >>

\* dto.rs: QueryAnalyticsRequest
QueryAnalyticsRequest(query_indicator, device_type_indicator, date_from, date_to) ==
    << VecField("query_indicator", query_indicator),
       OptionField("device_type_indicator", device_type_indicator, TRUE),
       OptionField("date_from", date_from, TRUE),
       OptionField("date_to", date_to, TRUE) >>

\* serde_qs::Config::new().array_format(ArrayFormat::Unindexed)
QsConfig == [array_format |-> "Unindexed"]

\* The key an element of a sequence is written under, by the array format:
\* key[i], key[] or the bare key.
ElementKeyMutIndexed(cfg, key, i) == key \o "[" \o ToString(i - 1) \o "]"

ElementKey(cfg, key, i) ==
    CASE cfg.array_format = "Indexed"      -> key \o "[" \o ToString(i - 1) \o "]"
      [] cfg.array_format = "EmptyIndexed" -> key \o "[]"
      [] cfg.array_format = "Unindexed"    -> key

\* One pair as text.
PairText(key, v) == key \o "=" \o PercentEncode(ScalarText(v))

\* serialize_none for a field the derive did not skip: nothing is written.
SerializeNone(key) == <<>>

\* The pairs a field is written as.
FieldPairs(cfg, f) ==
    CASE f.kind = "scalar" -> << PairText(f.key, f.v) >>
      [] f.kind = "opt" ->
           IF f.some THEN << PairText(f.key, f.v) >>
           ELSE IF f.skip THEN <<>> ELSE SerializeNone(f.key)
      [] f.kind = "vec" ->
           [ i \in 1..Len(f.items) |->
               PairText(ElementKey(cfg, f.key, i), f.items[i]) ]

RECURSIVE AllPairs(_, _)
AllPairs(cfg, filter) ==
    IF filter = <<>> THEN <<>>
    ELSE FieldPairs(cfg, Head(filter)) \o AllPairs(cfg, Tail(filter))

RECURSIVE JoinWith(_, _)
JoinWith(parts, sep) ==
    IF parts = <<>> THEN ""
    ELSE IF Len(parts) = 1 THEN parts[1]
    ELSE parts[1] \o sep \o JoinWith(Tail(parts), sep)

\* self.qs.serialize_string(&filter), when it succeeds
SerializeString(cfg, filter) == JoinWith(AllPairs(cfg, filter), "&")

\* A result of a serializer: the text, or the failure.
Serialized(text) == [ok |-> TRUE, text |-> text]

SerializeFailed == [ok |-> FALSE, text |-> ""]

\* The methods of the model that take a filter, and the path each puts after
\* the host: get_sqi_history, get_popular_queries, get_query_analytics.
FilterOps == {"get_sqi_history", "get_popular_queries", "get_query_analytics"}

FilterPath(op) ==
    CASE op = "get_sqi_history"     -> "/sqi-history"
      [] op = "get_popular_queries" -> "/search-queries/popular"
      [] op = "get_query_analytics" -> "/search-queries/all/history"

\* format!("{}/user/{}/hosts/{}/sqi-history?{}", API_BASE_URL, self.user_id,
\*         host_id, self.qs.serialize_string(&req)?), and the like
FilterUrlMutNoQuery(op, uid, host_id, query) == HostUrl(uid, host_id) \o FilterPath(op)

FilterUrl(op, uid, host_id, query) ==
    HostUrl(uid, host_id) \o FilterPath(op) \o "?" \o query

\* dto.rs: ExplicitVerificationType
ExplicitVerificationTypes == {"Dns", "MetaTag", "HtmlFile"}

\* serde_json::to_value(verification_type), when it succeeds: the renamed
\* variant as a JSON string.
VerificationTypeToValue(verification_type) ==
    JStr(ScreamingSnakeCase(verification_type))

\* serialized.clone().as_str().unwrap_or("").to_owned()
AsStrOrEmpty(j) == IF j.t = "str" THEN j.s ELSE ""

\* verify_host: format!("{}/user/{}/hosts/{}/verification?verification_type={}",
\*                      API_BASE_URL, self.user_id, host_id, verification_type)
VerifyHostUrl(uid, host_id, verification_type) ==
    HostUrl(uid, host_id) \o "/verification?verification_type=" \o verification_type

\* urlencoding::encode: the unreserved characters as they are, every other
\* one as % and the two hex digits of its code (for the characters of the
\* model).
UrlLiteral == UpperAlphabet \o LowerAlphabet \o DigitAlphabet \o "-_.~"

UrlEncodeChar(c) ==
    IF IndexOf(c, UrlLiteral) > 0 THEN c
    ELSE CASE c = " "  -> "%20"
           [] c = "*"  -> "%2A"
           [] OTHER    -> EncodeChar(c)

RECURSIVE UrlEncodeMutRaw(_)
UrlEncodeMutRaw(s) == IF s = "" THEN "" ELSE Head(s) \o UrlEncodeMutRaw(Tail(s))

RECURSIVE UrlEncode(_)
UrlEncode(s) == IF s = "" THEN "" ELSE UrlEncodeChar(Head(s)) \o UrlEncode(Tail(s))

\* get_important_urls_history:
\* format!("{}/user/{}/hosts/{}/important-urls/history?url={}", API_BASE_URL,
\*         self.user_id, host_id, urlencoding::encode(url_param))
ImportantUrlsHistoryUrl(uid, host_id, encoded) ==
    HostUrl(uid, host_id) \o "/important-urls/history?url=" \o encoded

(***************************************************************************)
(* The state machine: one facade under construction and in use, the calls  *)
(* made through it, and the requests that reached the base network sender  *)
(***************************************************************************)
\* The number of resource calls made through the client.
MaxCalls == 2

CallIds == 1..MaxCalls

\* Credentials: one that makes a valid header value, and the same with the
\* trailing newline of a token read from a file, which does not.
Tokens == {"y0_secret", "y0_secret\n"}

HostIds == {"https:example.com:443"}

HostUrls == {"example.com"}

BodyUser == "{\"user_id\": 42}"

BodyForbidden == "{\"error_code\":\"ACCESS_FORBIDDEN\",\"error_message\":\"no rights\"}"

BodyHtml == "<html>Internal Server Error</html>"

\* A body that has the shape of every success type of the model but
\* FullHostInfo, and the shape of the structured error too.
BodyBoth ==
    "{\"user_id\":7,\"host_id\":\"h2\",\"hosts\":[],"
    \o "\"error_code\":\"INVALID_OAUTH_TOKEN\",\"error_message\":\"expired\"}"

\* What the server may answer in the state machine.
Statuses == {200, 403}

ReadFailures == {"error decoding response body"}

\* What the bootstrap call may be given as the body of its response: read as
\* one of two texts, or not readable.
BootDeliveries ==
    { BodyText(b) : b \in {BodyUser, BodyBoth} }
    \cup { BodyUnreadable(w) : w \in ReadFailures }

\* The resource methods called in the state machine: a GET, a POST and a
\* DELETE (get_host builds the URL of delete_host and is sent as get_hosts is).
CallOps == {"get_hosts", "add_host", "delete_host"}

\* What a resource call may be given as the body of its response.
CallDeliveries == { BodyText(b) : b \in {BodyBoth, BodyHtml} }

\* A request handed to the middleware directly, with headers already set,
\* two of them Authorization headers.
ProbeRequests ==
    { Request("POST", "https://example.org/x?a=1",
              << <<"authorization", "Basic old">>,
                 <<"content-type", "application/json">>,
                 <<"authorization", "OAuth stale">> >>, "{}") }

\* What the classifier is given when it is checked on its own.
BodyUnknownCode ==
    "{\"error_code\":\"SOME_UNKNOWN_ERROR\",\"error_message\":\"unknown error occurred\","
    \o "\"acceptable_types\":[\"text/xml\"],\"valid_until\":\"2024-01-01\"}"

BodyNoMessage == "{\"error_code\":\"HOST_NOT_FOUND\"}"

BodyHost ==
    "{\"host_id\":\"h1\",\"ascii_host_url\":\"a\",\"unicode_host_url\":\"u\","
    \o "\"verified\":true,\"host_data_status\":\"OK\"}"

ClassifyOps == Ops \cup {"fetch_user"}

ClassifyStatuses == {200, 299, 300, 403, 500}

ClassifyDeliveries ==
    { BodyText(b) : b \in {BodyUser, BodyForbidden, BodyHtml, BodyBoth,
                           BodyUnknownCode, BodyNoMessage, BodyHost, ""} }
    \cup { BodyUnreadable(w) : w \in ReadFailures }

\* What the error-code decoder and Display are given when they are checked
\* on their own: every code of the closed set and some outside it, in a body
\* with one of two messages; and every value of YandexErrorCode to display.
OutsideCodes ==
    {"SOME_UNKNOWN_ERROR", "invalid_url", "InvalidUrl", "INVALID_URL ",
     "UNKNOWN", ""}

\* The code strings the tests of error.rs decode, each with the variant the
\* test asserts.
TestedCodes ==
    { <<"ENTITY_VALIDATION_ERROR", "EntityValidationError">>,
      <<"INVALID_URL", "InvalidUrl">>,
      <<"NO_CHANGES", "NoChanges">>,
      <<"WRONG_REGION", "WrongRegion">>,
      <<"ACCESS_FORBIDDEN", "AccessForbidden">>,
      <<"INVALID_OAUTH_TOKEN", "InvalidOauthToken">>,
      <<"HOSTS_LIMIT_EXCEEDED", "HostsLimitExceeded">>,
      <<"FEEDS_LIMIT_EXCEEDED", "FeedsLimitExceeded">>,
      <<"RESOURCE_NOT_FOUND", "ResourceNotFound">>,
      <<"HOST_NOT_INDEXED", "HostNotIndexed">>,
      <<"HOST_NOT_FOUND", "HostNotFound">>,
      <<"SITEMAP_NOT_FOUND", "SitemapNotFound">>,
      <<"TASK_NOT_FOUND", "TaskNotFound">>,
      <<"QUERY_ID_NOT_FOUND", "QueryIdNotFound">>,
      <<"METHOD_NOT_ALLOWED", "MethodNotAllowed">>,
      <<"CONTENT_TYPE_UNSUPPORTED", "ContentTypeUnsupported">>,
      <<"URL_ALREADY_ADDED", "UrlAlreadyAdded">>,
      <<"HOST_ALREADY_ADDED", "HostAlreadyAdded">>,
      <<"VERIFICATION_ALREADY_IN_PROGRESS", "VerificationAlreadyInProgress">>,
      <<"SITEMAP_ALREADY_ADDED", "SitemapAlreadyAdded">>,
      <<"UPLOAD_ADDRESS_EXPIRED", "UploadAddressExpired">>,
      <<"REQUEST_ENTITY_TOO_LARGE", "RequestEntityTooLarge">>,
      <<"CONTENT_ENCODING_UNSUPPORTED", "ContentEncodingUnsupported">>,
      <<"QUOTA_EXCEEDED", "QuotaExceeded">>,
      <<"TOO_MANY_REQUESTS_ERROR", "TooManyRequestsError">> }

CodeStrings == ClosedSet \cup { p[1] : p \in TestedCodes } \cup OutsideCodes

Messages == {"some string", "no \"rights\" \\ here"}

\* The minimal error body {error_code, error_message}, as JSON text.
MinimalBody(code, message) ==
    "{\"error_code\":\"" \o EscapeJson(code) \o "\",\"error_message\":\""
    \o EscapeJson(message) \o "\"}"

\* Error bodies with optional and other fields, after those the tests of
\* error.rs decode (with shorter values): the members an error object may
\* have besides the four of YandexApiErrorResponse, and the values of the
\* two optional ones.
ExtraFieldTexts ==
    { "",
      "\"limit\":1,",
      "\"host_id\":\"h:80\",",
      "\"host_id\":\"h:80\",\"sitemap_id\":\"c7\",",
      "\"host_id\":\"h:80\",\"verified\":false,",
      "\"host_id\":\"h:80\",\"extra_field\":\"x\"," }

AcceptableOptions == { None(<<>>), Some(<< "a/b", "c/d" >>) }

ValidUntilOptions == { None(""), Some("2016-01-01") }

FieldCodes == {"NO_CHANGES", "HOST_NOT_FOUND", "NEW_CODE"}

RECURSIVE JsonStrings(_)
JsonStrings(xs) ==
    IF xs = <<>> THEN ""
    ELSE "\"" \o EscapeJson(Head(xs)) \o "\""
         \o (IF Len(xs) > 1 THEN "," ELSE "") \o JsonStrings(Tail(xs))

\* The error object as JSON text: the code, the other members, the optional
\* fields that are present, the message.
ErrorBody(code, extras, acc, until, message) ==
    "{\"error_code\":\"" \o EscapeJson(code) \o "\"," \o extras
    \o (IF acc.some THEN "\"acceptable_types\":[" \o JsonStrings(acc.v) \o "],"
        ELSE "")
    \o (IF until.some THEN "\"valid_until\":\"" \o EscapeJson(until.v) \o "\","
        ELSE "")
    \o "\"error_message\":\"" \o EscapeJson(message) \o "\"}"

CodeValues ==
    { Known(v) : v \in KnownVariantSet }
    \cup { Unknown(x) : x \in OutsideCodes \cup {"CUSTOM_ERROR", "\"QUOTED\"", "INVALID_URL"} }

\* The ApiError test_error_display builds is a 404 with this message and
\* neither optional field; 403 is another status an ApiError carries.
RenderedMessages == {"Host not found in user's list"}

ApiErrorStatuses == {403, 404}

\* YandexApiErrorResponse { error_code, error_message, acceptable_types:
\* None, valid_until: None }
ErrorResponseLiteral(value, message) ==
    [ok |-> TRUE, error_code |-> value, error_message |-> message,
     acceptable_types |-> None(<<>>), valid_until |-> None("")]

\* What the filter methods are given when the encoder is checked: the
\* longest query_indicator list, the values of the fields, and the filters
\* made of them.
MaxIndicators == 2

Indicators == {EnumVal("TotalShows"), EnumVal("AvgClickPosition")}

IndicatorLists == UNION { [1..k -> Indicators] : k \in 1..MaxIndicators }

Midnight == DateTimeVal(2024, 1, 1, 0, 0, 0)

OptDateTimes == {None(NoVal), Some(Midnight), Some(DateTimeVal(2024, 1, 31, 23, 59, 59))}

SqiFilters ==
    { SqiHistoryRequest(a, b) : a \in OptDateTimes, b \in {None(NoVal), Some(Midnight)} }

PopularFilters ==
    { PopularQueriesRequest(o, qi, df, off) :
        o \in {EnumVal("TotalShows"), EnumVal("TotalClicks")},
        qi \in {None(NoVal), Some(EnumVal("AvgShowPosition"))},
        df \in {None(NoVal), Some(DateVal(2024, 1, 1))},
        off \in {None(NoVal), Some(IntVal(0))} }

AnalyticsFilters ==
    { QueryAnalyticsRequest(l, dev, df, None(NoVal)) :
        l \in IndicatorLists,
        dev \in {None(NoVal), Some(EnumVal("MobileAndTablet"))},
        df \in {None(NoVal), Some(Midnight)} }

FiltersOf(op) ==
    CASE op = "get_sqi_history"     -> SqiFilters
      [] op = "get_popular_queries" -> PopularFilters
      [] op = "get_query_analytics" -> AnalyticsFilters

AllFilters == SqiFilters \cup PopularFilters \cup AnalyticsFilters

\* The configurations an encoder can have, and what serialize_string gives
\* for each of them on each filter of the model.
QsConfigs == { [array_format |-> a] : a \in {"Indexed", "EmptyIndexed", "Unindexed"} }

SerializedFilters ==
    [ cfg \in QsConfigs |-> [ f \in AllFilters |-> SerializeString(cfg, f) ] ]

SerializedBodies ==
    [ host_url \in {"example.com", "say \"hi\""} |->
        SerializeAddHostRequest(host_url, "Dns") ]

\* The filters whose repeated encodings are compared.
WatchedFilters ==
    { SqiHistoryRequest(Some(Midnight), None(NoVal)),
      PopularQueriesRequest(EnumVal("TotalShows"), None(NoVal),
                            Some(DateVal(2024, 1, 1)), None(NoVal)),
      QueryAnalyticsRequest(<< EnumVal("TotalShows"), EnumVal("AvgClickPosition") >>,
                            None(NoVal), None(NoVal), None(NoVal)),
      QueryAnalyticsRequest(<< EnumVal("TotalShows") >>,
                            Some(EnumVal("MobileAndTablet")), Some(Midnight),
                            None(NoVal)) }

QueryHostIds == {"h1"}

\* The url_param values of get_important_urls_history, and their encodings.
UrlParams == {"https://example.com/a b", "x=1&y=*", "plain-1_2.3"}

EncodedUrlParams == [u \in UrlParams |-> UrlEncode(u)]

PostHostUrls == DOMAIN SerializedBodies

VARIABLES
    oauth_token,  \* the credential given to new, held by AuthMiddleware
    phase,        \* the facade's lifecycle state
    client,       \* the YandexWebmasterClient new returned, if any
    new_outcome,  \* what new returned: Ok, or the error
    boot,         \* the identity-resolution call of new
    calls,        \* the resource calls made through the client
    wire,         \* the requests that reached the base sender, in order
    mw,           \* the last direct use of AuthMiddleware::handle
    cls,          \* an input of the response classifier and its outcome
    dec,          \* an input of the error-code decoder and its results
    qry,          \* what a Ready client's calls encoded and handed to the sender
    clone         \* the clone of the client, if one was made, and its calls

vars ==
    <<oauth_token, phase, client, new_outcome, boot, calls, wire, mw, cls, dec,
      qry, clone>>

NoRequest == Request("", "", <<>>, "")

\* A call: where it is, what it sent and what it got.
Call(pc, op, arg, req, status, body, outcome) ==
    [pc |-> pc, op |-> op, arg |-> arg, req |-> req, status |-> status,
     body |-> body, outcome |-> outcome]

IdleCall == Call("idle", "none", "", NoRequest, 0, NoBody, NoOutcome)

NoClient == [exists |-> FALSE, user_id |-> 0, qs |-> [array_format |-> "none"]]

NoClone ==
    [exists |-> FALSE, user_id |-> 0, qs |-> [array_format |-> "none"],
     oauth_token |-> "", calls |-> {}]

NoMw == [used |-> FALSE, req |-> NoRequest, out |-> [next |-> FALSE, req |-> NoRequest]]

NoCls == [op |-> "none", status |-> 0, body |-> NoBody, done |-> FALSE,
          outcome |-> NoOutcome]

\* Nothing encoded yet: the filter whose encodings are compared, its first
\* encoding (none), whether other calls followed it, the last call, what it
\* sent.
NoQry ==
    [watch   |-> <<>>,
     seen    |-> [set |-> FALSE, text |-> ""],
     between |-> FALSE,
     last    |-> [op |-> "none", host_id |-> "", filter |-> <<>>, arg |-> "",
                  result |-> SerializeFailed, outcome |-> NoOutcome],
     sent    |-> <<>>]

NoDec == [mode |-> "none", code |-> "", message |-> "", done |-> FALSE,
          out |-> NoErrorResponse, value |-> Unknown(""), shown |-> "",
          displayed |-> FALSE,
          extras |-> "", acc |-> None(<<>>), until |-> None(""),
          rendered |-> [set |-> FALSE, status |-> 0, text |-> ""],
          again |-> [set |-> FALSE, out |-> NoErrorResponse]]

\* ClientWithMiddleware::send with the stack new builds: AuthMiddleware, then
\* the base reqwest client.
Send(token, req) == Handle(token, req)

\* The Result new returns from the Result of fetch_user: the error as it is,
\* or the client with the user_id of the response.
NewOutcomeMutDefaultOnError(fetched) == Ok([NoValue EXCEPT !.n = fetched.value.n])

NewOutcome(fetched) ==
    IF fetched.kind = "Ok" THEN Ok([NoValue EXCEPT !.n = fetched.value.n])
    ELSE fetched

\* Ok(Self { client, user_id: user_response.user_id, qs }) of new
ClientOfMutZeroId(outcome) ==
    IF outcome.kind = "Ok"
    THEN [exists |-> TRUE, user_id |-> 0, qs |-> QsConfig]
    ELSE NoClient

ClientOf(outcome) ==
    IF outcome.kind = "Ok"
    THEN [exists |-> TRUE, user_id |-> outcome.value.n, qs |-> QsConfig]
    ELSE NoClient

\* YandexWebmasterClient::user_id
UserId == client.user_id

InitClient ==
    /\ oauth_token \in Tokens
    /\ phase = "Uninitialized"
    /\ client = NoClient
    /\ new_outcome = NoOutcome
    /\ boot = IdleCall
    /\ calls = [c \in CallIds |-> IdleCall]
    /\ wire = <<>>
    /\ mw = NoMw
    /\ clone = NoClone

Init == InitClient /\ cls = NoCls /\ dec = NoDec /\ qry = NoQry

\* new returns: the facade is Ready with its client, or Failed.
Finish(fetched) ==
    /\ new_outcome' = NewOutcome(fetched)
    /\ client' = ClientOf(new_outcome')
    /\ phase' = IF new_outcome'.kind = "Ok" THEN "Ready" ELSE "Failed"

\* new, up to the call of fetch_user: the client is built with the middleware.
NewBuild ==
    /\ phase = "Uninitialized"
    /\ phase' = "Authenticating"
    /\ boot' = [boot EXCEPT !.pc = "built", !.op = "fetch_user"]
    /\ UNCHANGED <<oauth_token, client, new_outcome, calls, wire, mw, cls, dec, qry, clone>>

\* fetch_user: client.get(url).send(), up to the request leaving or failing
\* in the middleware.
BootSend ==
    /\ phase = "Authenticating" /\ boot.pc = "built"
    /\ LET h == Send(oauth_token, BuildRequest("fetch_user", 0, ""))
       IN  IF h.next
           THEN /\ wire' = Append(wire, [from |-> 0, req |-> h.req])
                /\ boot' = [boot EXCEPT !.pc = "awaitResponse", !.req = h.req]
                /\ UNCHANGED <<phase, client, new_outcome>>
           ELSE /\ boot' = [boot EXCEPT !.pc = "done",
                               !.outcome = MiddlewareHttpError("middleware")]
                /\ Finish(boot'.outcome)
                /\ UNCHANGED wire
    /\ UNCHANGED <<oauth_token, calls, mw, cls, dec, qry, clone>>

\* The base sender fails: no response.
BootTransportError ==
    /\ boot.pc = "awaitResponse"
    /\ boot' = [boot EXCEPT !.pc = "done",
                   !.outcome = MiddlewareHttpError("reqwest")]
    /\ Finish(boot'.outcome)
    /\ UNCHANGED <<oauth_token, calls, wire, mw, cls, dec, qry, clone>>

\* The response arrives; fetch_user goes on to read its body.
BootResponse(status) ==
    /\ boot.pc = "awaitResponse"
    /\ boot' = [boot EXCEPT !.pc = "awaitBody", !.status = status]
    /\ UNCHANGED <<oauth_token, phase, client, new_outcome, calls, wire, mw, cls, dec, qry, clone>>

\* The body is read, or fails to be: fetch_user returns, and new with it.
BootBody(body) ==
    /\ boot.pc = "awaitBody"
    /\ boot' = [boot EXCEPT !.pc = "done", !.body = body,
                   !.outcome = OutcomeOf("fetch_user", boot.status, body)]
    /\ Finish(boot'.outcome)
    /\ UNCHANGED <<oauth_token, calls, wire, mw, cls, dec, qry, clone>>

\* A method of the client is called (there is a client to call it on): it
\* builds its request and sends it.  Calls are numbered in the order they
\* are made.
CallStart(c, op, arg) ==
    /\ client.exists
    /\ calls[c].pc = "idle"
    /\ \A d \in CallIds : d < c => calls[d].pc /= "idle"
    /\ LET h == Send(oauth_token, BuildRequest(op, client.user_id, arg))
       IN  IF h.next
           THEN /\ wire' = Append(wire, [from |-> c, req |-> h.req])
                /\ calls' = [calls EXCEPT ![c] =
                               Call("awaitResponse", op, arg, h.req, 0, NoBody,
                                    NoOutcome)]
           ELSE /\ calls' = [calls EXCEPT ![c] =
                               Call("done", op, arg, NoRequest, 0, NoBody,
                                    MiddlewareHttpError("middleware"))]
                /\ UNCHANGED wire
    /\ UNCHANGED <<oauth_token, phase, client, new_outcome, boot, mw, cls, dec, qry, clone>>

\* post when serde_json::to_string(body)? fails: the method returns
\* ParseError before a request is built.
CallSerializeError(c, op, arg) ==
    /\ client.exists
    /\ MethodOf(op) = "POST"
    /\ calls[c].pc = "idle"
    /\ \A d \in CallIds : d < c => calls[d].pc /= "idle"
    /\ calls' = [calls EXCEPT ![c] =
                   Call("done", op, arg, NoRequest, 0, NoBody,
                        ParseErrorVariant("serialize"))]
    /\ UNCHANGED <<oauth_token, phase, client, new_outcome, boot, wire, mw, cls, dec, qry, clone>>

\* The requests on the wire that the call c sent (0 is the bootstrap call).
RequestsOf(w, c) == { i \in 1..Len(w) : w[i].from = c }

\* The base sender fails: no response, and the call returns the error.
CallTransportErrorMutRetry(c) ==
    /\ calls[c].pc = "awaitResponse"
    /\ IF Cardinality(RequestsOf(wire, c)) < 2
       THEN /\ wire' = Append(wire, [from |-> c, req |-> calls[c].req])
            /\ UNCHANGED calls
       ELSE /\ calls' = [calls EXCEPT ![c].pc = "done",
                                     ![c].outcome = MiddlewareHttpError("reqwest")]
            /\ UNCHANGED wire
    /\ UNCHANGED <<oauth_token, phase, client, new_outcome, boot, mw, cls, dec, qry, clone>>

CallTransportErrorMutHttpError(c) ==
    /\ calls[c].pc = "awaitResponse"
    /\ calls' = [calls EXCEPT ![c].pc = "done",
                              ![c].outcome = HttpError("reqwest")]
    /\ UNCHANGED <<oauth_token, phase, client, new_outcome, boot, wire, mw, cls, dec, qry, clone>>

CallTransportError(c) ==
    /\ calls[c].pc = "awaitResponse"
    /\ calls' = [calls EXCEPT ![c].pc = "done",
                              ![c].outcome = MiddlewareHttpError("reqwest")]
    /\ UNCHANGED <<oauth_token, phase, client, new_outcome, boot, wire, mw, cls, dec, qry, clone>>

\* The response arrives: delete returns on a success status, every other
\* case goes on to read the body.
CallResponse(c, status) ==
    /\ calls[c].pc = "awaitResponse"
    /\ calls' = [calls EXCEPT ![c] =
                   IF ReadsBody(calls[c].op, status)
                   THEN [@ EXCEPT !.pc = "awaitBody", !.status = status]
                   ELSE [@ EXCEPT !.pc = "done", !.status = status,
                                  !.outcome = OutcomeOf(calls[c].op, status, NoBody)]]
    /\ UNCHANGED <<oauth_token, phase, client, new_outcome, boot, wire, mw, cls, dec, qry, clone>>

\* The body is read, or fails to be: the call returns what its own response
\* gives.
CallBodyMutSharedStatus(c, body) ==
    /\ calls[c].pc = "awaitBody"
    /\ calls' = [calls EXCEPT ![c] =
                   [@ EXCEPT !.pc = "done", !.body = body,
                             !.outcome = OutcomeOf(calls[c].op, calls[1].status, body)]]
    /\ UNCHANGED <<oauth_token, phase, client, new_outcome, boot, wire, mw, cls, dec, qry, clone>>

CallBody(c, body) ==
    /\ calls[c].pc = "awaitBody"
    /\ calls' = [calls EXCEPT ![c] =
                   [@ EXCEPT !.pc = "done", !.body = body,
                             !.outcome = OutcomeOf(calls[c].op, calls[c].status, body)]]
    /\ UNCHANGED <<oauth_token, phase, client, new_outcome, boot, wire, mw, cls, dec, qry, clone>>

\* AuthMiddleware::handle on a request that did not come from the client.
MiddlewareHandle(req) ==
    /\ mw' = [used |-> TRUE, req |-> req, out |-> Handle(oauth_token, req)]
    /\ UNCHANGED <<oauth_token, phase, client, new_outcome, boot, calls, wire, cls, dec, qry, clone>>

ArgsOf(op) ==
    CASE op = "get_hosts" -> {""}
      [] op = "add_host"  -> HostUrls
      [] OTHER            -> HostIds

Next ==
    \/ NewBuild
    \/ BootSend
    \/ BootTransportError
    \/ \E status \in Statuses : BootResponse(status)
    \/ \E body \in BootDeliveries : BootBody(body)
    \/ \E c \in CallIds, op \in CallOps : \E arg \in ArgsOf(op) : CallStart(c, op, arg)
    \/ \E c \in CallIds, op \in CallOps : \E arg \in ArgsOf(op) :
          CallSerializeError(c, op, arg)
    \/ \E c \in CallIds : CallTransportError(c)
    \/ \E c \in CallIds, status \in Statuses : CallResponse(c, status)
    \/ \E c \in CallIds, body \in CallDeliveries : CallBody(c, body)
    \/ \E req \in ProbeRequests : MiddlewareHandle(req)

Spec == Init /\ [][Next]_vars

(***************************************************************************)
(* The classifier on its own: OutcomeOf applied to every operation, status *)
(* and body of ClassifyOps, ClassifyStatuses and ClassifyDeliveries         *)
(***************************************************************************)
InitIdleClient ==
    /\ oauth_token = "y0_secret"
    /\ phase = "Uninitialized"
    /\ client = NoClient
    /\ new_outcome = NoOutcome
    /\ boot = IdleCall
    /\ calls = [c \in CallIds |-> IdleCall]
    /\ wire = <<>>
    /\ mw = NoMw
    /\ clone = NoClone

InitClassify ==
    /\ InitIdleClient
    /\ dec = NoDec /\ qry = NoQry
    /\ \E op \in ClassifyOps, status \in ClassifyStatuses, body \in ClassifyDeliveries :
          cls = [op |-> op, status |-> status, body |-> body, done |-> FALSE,
                 outcome |-> NoOutcome]

\* What the classifier returns for each response of the inputs.
ClassifiedOutcomes ==
    [op \in ClassifyOps |->
       [status \in ClassifyStatuses |->
          [body \in ClassifyDeliveries |-> OutcomeOf(op, status, body)]]]

Classify ==
    /\ ~cls.done
    /\ cls' = [cls EXCEPT !.done = TRUE,
                          !.outcome =
                             ClassifiedOutcomes[cls.op][cls.status][cls.body]]
    /\ UNCHANGED <<oauth_token, phase, client, new_outcome, boot, calls, wire, mw, dec, qry, clone>>

NextClassify == Classify

SpecClassify == InitClassify /\ [][NextClassify]_vars

(***************************************************************************)
\* handle_response, parse_error and fetch_user have no loop and await only
\* the body of the response they hold: once the body is delivered or its
\* read fails, the classifier runs to its return.
SpecClassifyFair == SpecClassify /\ WF_vars(Classify)

(***************************************************************************)

(* The error-code decoder and Display on their own                         *)
(***************************************************************************)
InitCodes ==
    /\ InitIdleClient
    /\ cls = NoCls /\ qry = NoQry
    /\ \/ \E code \in CodeStrings, message \in Messages :
             dec = [NoDec EXCEPT !.mode = "decode", !.code = code,
                                 !.message = message]
       \/ \E value \in CodeValues :
             dec = [NoDec EXCEPT !.mode = "display", !.value = value]
       \/ \E code \in FieldCodes, extras \in ExtraFieldTexts :
             \E acc \in AcceptableOptions, until \in ValidUntilOptions :
                dec = [NoDec EXCEPT !.mode = "fields", !.code = code,
                                    !.message = "msg",
                                    !.extras = extras, !.acc = acc,
                                    !.until = until]
       \/ \E value \in CodeValues, message \in RenderedMessages :
             dec = [NoDec EXCEPT !.mode = "render",
                                 !.out = ErrorResponseLiteral(value, message)]

\* serde_json::from_str::<YandexApiErrorResponse> on the minimal body
DecodeBody ==
    /\ dec.mode = "decode" /\ ~dec.done
    /\ dec' = [dec EXCEPT !.done = TRUE,
                          !.out = ErrorResponseFromStr(
                                      MinimalBody(dec.code, dec.message))]
    /\ UNCHANGED <<oauth_token, phase, client, new_outcome, boot, calls, wire, mw, cls, qry, clone>>

\* serde_json::from_str::<YandexApiErrorResponse> on a body with optional
\* and other fields
DecodeFields ==
    /\ dec.mode = "fields" /\ ~dec.done
    /\ dec' = [dec EXCEPT !.done = TRUE,
                          !.out = ErrorResponseFromStr(
                                      ErrorBody(dec.code, dec.extras, dec.acc,
                                                dec.until, dec.message))]
    /\ UNCHANGED <<oauth_token, phase, client, new_outcome, boot, calls, wire, mw, cls, qry, clone>>

\* to_string() of a decoded code
DisplayDecoded ==
    /\ dec.mode = "decode" /\ dec.done /\ dec.out.ok /\ ~dec.displayed
    /\ dec' = [dec EXCEPT !.displayed = TRUE, !.value = dec.out.error_code,
                          !.shown = DisplayCode(dec.out.error_code)]
    /\ UNCHANGED <<oauth_token, phase, client, new_outcome, boot, calls, wire, mw, cls, qry, clone>>

\* to_string() of the ApiError made of a decoded response, or of the one
\* test_error_display builds
DisplayApiError(status) ==
    /\ \/ dec.mode \in {"decode", "fields"} /\ dec.done /\ dec.out.ok
       \/ dec.mode = "render"
    /\ ~dec.rendered.set
    /\ dec' = [dec EXCEPT !.rendered =
                  [set |-> TRUE, status |-> status,
                   text |-> DisplayError(ApiError(status, dec.out))]]
    /\ UNCHANGED <<oauth_token, phase, client, new_outcome, boot, calls, wire, mw, cls, qry, clone>>

\* to_string() of a code
DisplayValue ==
    /\ dec.mode = "display" /\ ~dec.displayed
    /\ dec' = [dec EXCEPT !.displayed = TRUE, !.shown = DisplayCode(dec.value)]
    /\ UNCHANGED <<oauth_token, phase, client, new_outcome, boot, calls, wire, mw, cls, qry, clone>>

\* serde_json::from_str::<YandexApiErrorResponse> on the minimal body whose
\* error_code is the string a code was displayed as
DecodeDisplayed ==
    /\ dec.mode \in {"decode", "display"} /\ dec.displayed /\ ~dec.again.set
    /\ dec' = [dec EXCEPT !.again =
                  [set |-> TRUE,
                   out |-> ErrorResponseFromStr(MinimalBody(dec.shown, "m"))]]
    /\ UNCHANGED <<oauth_token, phase, client, new_outcome, boot, calls, wire, mw, cls, qry, clone>>

NextCodes ==
    \/ DecodeDisplayed
    \/ DecodeBody
    \/ DecodeFields
    \/ DisplayDecoded
    \/ DisplayValue
    \/ \E status \in ApiErrorStatuses : DisplayApiError(status)

SpecCodes == InitCodes /\ [][NextCodes]_vars

(***************************************************************************)
(* The calls of a Ready client that encode a filter or a body, up to the   *)
(* request being handed to the sender                                      *)
(***************************************************************************)
\* The client after a method that takes &self has run: as it was.
AfterCallMutResetQs(c) == [c EXCEPT !.qs = [array_format |-> "Indexed"]]

AfterCall(c) == c

\* new has returned the client of user 42.
InitReadyClient ==
    /\ oauth_token = "y0_secret"
    /\ phase = "Ready"
    /\ boot = Call("done", "fetch_user", "",
                   Send("y0_secret", BuildRequest("fetch_user", 0, "")).req,
                   200, BodyText(BodyUser),
                   OutcomeOf("fetch_user", 200, BodyText(BodyUser)))
    /\ new_outcome = NewOutcome(boot.outcome)
    /\ client = ClientOf(new_outcome)
    /\ wire = << [from |-> 0, req |-> boot.req] >>
    /\ calls = [c \in CallIds |-> IdleCall]
    /\ mw = NoMw
    /\ clone = NoClone

InitQuery ==
    /\ InitReadyClient /\ cls = NoCls /\ dec = NoDec
    /\ \E f \in WatchedFilters : qry = [NoQry EXCEPT !.watch = f]

\* What the call leaves in qry: itself as the last call, what it sent, and
\* the encoding of the watched filter if this is the first one.
Encoded(op, host_id, filter, arg, result, outcome, sent) ==
    [watch   |-> qry.watch,
     seen    |-> IF ~qry.seen.set /\ result.ok /\ filter = qry.watch
                 THEN [set |-> TRUE, text |-> result.text]
                 ELSE qry.seen,
     between |-> qry.between \/ (qry.seen.set /\ filter # qry.watch),
     last    |-> [op |-> op, host_id |-> host_id, filter |-> filter, arg |-> arg,
                  result |-> result, outcome |-> outcome],
     sent    |-> sent]

\* What becomes of a request built after the encoding succeeded: sent, or
\* stopped in the middleware.
Handed(op, host_id, filter, arg, result, h) ==
    IF h.next
    THEN Encoded(op, host_id, filter, arg, result, NoOutcome, << h.req >>)
    ELSE Encoded(op, host_id, filter, arg, result,
                 MiddlewareHttpError("middleware"), <<>>)

\* get_sqi_history, get_popular_queries, get_query_analytics: the filter is
\* encoded (result is what serialize_string returned), the URL formatted and
\* get(url) called, up to send.
FilterCall(op, host_id, filter, result) ==
    /\ client.exists
    /\ qry' = IF ~result.ok
              THEN Encoded(op, host_id, filter, "", result,
                           SerdeQsError("serialize"), <<>>)
              ELSE Handed(op, host_id, filter, "", result,
                          Send(oauth_token,
                               Request("GET",
                                       FilterUrl(op, client.user_id, host_id,
                                                 result.text),
                                       <<>>, "")))
    /\ client' = AfterCall(client)
    /\ UNCHANGED <<oauth_token, phase, new_outcome, boot, calls, wire, mw, cls, dec, clone>>

\* add_host: post(url, request), up to send; result is what
\* serde_json::to_string(body) returned.
PostCall(host_url, result) ==
    /\ client.exists
    /\ qry' = IF ~result.ok
              THEN Encoded("add_host", "", <<>>, host_url, result,
                           ParseErrorVariant("serialize"), <<>>)
              ELSE Handed("add_host", "", <<>>, host_url, result,
                          Send(oauth_token,
                               PostRequest(HostsUrl(client.user_id), result.text)))
    /\ client' = AfterCall(client)
    /\ UNCHANGED <<oauth_token, phase, new_outcome, boot, calls, wire, mw, cls, dec, clone>>

\* verify_host: the verification type is made a JSON value (result is what
\* serde_json::to_value returned), its text put into the URL, and
\* post(url, &()) called, up to send.
VerifyHostCall(host_id, verification_type, result) ==
    /\ client.exists
    /\ qry' = IF ~result.ok
              THEN Encoded("verify_host", host_id, <<>>, verification_type, result,
                           ParseErrorVariant("serialize"), <<>>)
              ELSE Handed("verify_host", host_id, <<>>, verification_type, result,
                          Send(oauth_token,
                               PostRequest(VerifyHostUrl(client.user_id, host_id,
                                                         result.text),
                                           "null")))
    /\ client' = AfterCall(client)
    /\ UNCHANGED <<oauth_token, phase, new_outcome, boot, calls, wire, mw, cls, dec, clone>>

\* get_important_urls_history: the url is encoded, put into the URL, and
\* get(url) called, up to send.
ImportantUrlsCall(host_id, url_param) ==
    /\ client.exists
    /\ qry' = Handed("get_important_urls_history", host_id, <<>>, url_param,
                     Serialized(EncodedUrlParams[url_param]),
                     Send(oauth_token,
                          Request("GET",
                                  ImportantUrlsHistoryUrl(client.user_id, host_id,
                                                          EncodedUrlParams[url_param]),
                                  <<>>, "")))
    /\ client' = AfterCall(client)
    /\ UNCHANGED <<oauth_token, phase, new_outcome, boot, calls, wire, mw, cls, dec, clone>>

NextQuery ==
    \/ \E host_id \in QueryHostIds, verification_type \in ExplicitVerificationTypes :
          \E result \in {Serialized(AsStrOrEmpty(
                                       VerificationTypeToValue(verification_type))),
                         SerializeFailed} :
             VerifyHostCall(host_id, verification_type, result)
    \/ \E host_id \in QueryHostIds, url_param \in UrlParams :
          ImportantUrlsCall(host_id, url_param)
    \/ \E op \in FilterOps, host_id \in QueryHostIds :
          \E filter \in FiltersOf(op) :
             \E result \in {Serialized(SerializedFilters[client.qs][filter]),
                            SerializeFailed} :
                FilterCall(op, host_id, filter, result)
    \/ \E host_url \in PostHostUrls :
          \E result \in {Serialized(SerializedBodies[host_url]), SerializeFailed} :
             PostCall(host_url, result)

SpecQuery == InitQuery /\ [][NextQuery]_vars

(***************************************************************************)
(* Calls of a Ready client that may be dropped at their suspension points  *)
(***************************************************************************)
\* The methods and arguments of the calls that may be dropped.
CancelOps == {"get_hosts", "delete_host"}

CancelArgs(op) == IF op = "get_hosts" THEN {""} ELSE {"h1"}

\* The future of a call is dropped while it waits for send() or for the
\* body: the call returns nothing and the client is as it was.
CallCancelMutPoisons(c) ==
    /\ calls[c].pc \in {"awaitResponse", "awaitBody"}
    /\ calls' = [calls EXCEPT ![c].pc = "cancelled"]
    /\ client' = [client EXCEPT !.user_id = 0]
    /\ UNCHANGED <<oauth_token, phase, new_outcome, boot, wire, mw, cls, dec, qry, clone>>

CallCancel(c) ==
    /\ calls[c].pc \in {"awaitResponse", "awaitBody"}
    /\ calls' = [calls EXCEPT ![c].pc = "cancelled"]
    /\ UNCHANGED <<oauth_token, phase, client, new_outcome, boot, wire, mw, cls, dec, qry, clone>>

\* The future of a call is dropped before it was polled: nothing was built
\* and nothing sent.
CallDrop(c, op, arg) ==
    /\ client.exists
    /\ calls[c].pc = "idle"
    /\ \A d \in CallIds : d < c => calls[d].pc /= "idle"
    /\ calls' = [calls EXCEPT ![c] =
                   Call("cancelled", op, arg, NoRequest, 0, NoBody, NoOutcome)]
    /\ UNCHANGED <<oauth_token, phase, client, new_outcome, boot, wire, mw, cls, dec, qry, clone>>

InitCancel == InitReadyClient /\ cls = NoCls /\ dec = NoDec /\ qry = NoQry

NextCancel ==
    \/ \E c \in CallIds, op \in CancelOps : \E arg \in CancelArgs(op) :
          CallStart(c, op, arg)
    \/ \E c \in CallIds, op \in CancelOps : \E arg \in CancelArgs(op) :
          CallDrop(c, op, arg)
    \/ \E c \in CallIds : CallCancel(c)
    \/ \E c \in CallIds : CallTransportError(c)
    \/ \E c \in CallIds, status \in Statuses : CallResponse(c, status)
    \/ \E c \in CallIds, body \in CallDeliveries : CallBody(c, body)

SpecCancel == InitCancel /\ [][NextCancel]_vars

(***************************************************************************)
(* The client and its clone                                                *)
(***************************************************************************)
\* The methods called through the client and through its clone: a GET and
\* a POST.
CloneOps == {"get_hosts", "add_host"}

\* #[derive(Clone)] on YandexWebmasterClient: the clone of the
\* ClientWithMiddleware (with the AuthMiddleware that holds token), the
\* user_id and the encoder configuration, field by field.
CloneOfMutFresh(c, token) ==
    [exists |-> TRUE, user_id |-> 0, qs |-> c.qs,
     oauth_token |-> token, calls |-> {}]

CloneOf(c, token) ==
    [exists |-> TRUE, user_id |-> c.user_id, qs |-> c.qs,
     oauth_token |-> token, calls |-> {}]

\* client.clone()
CloneClient ==
    /\ client.exists /\ ~clone.exists
    /\ clone' = CloneOf(client, oauth_token)
    /\ UNCHANGED <<oauth_token, phase, client, new_outcome, boot, calls, wire, mw, cls, dec, qry>>

\* A resource method called on the clone, up to send: it builds the request
\* with the clone's user_id and sends it through the clone's middleware.
CloneCallStart(c, op, arg) ==
    /\ clone.exists
    /\ calls[c].pc = "idle"
    /\ \A d \in CallIds : d < c => calls[d].pc /= "idle"
    /\ LET h == Send(clone.oauth_token, BuildRequest(op, clone.user_id, arg))
       IN  IF h.next
           THEN /\ wire' = Append(wire, [from |-> c, req |-> h.req])
                /\ calls' = [calls EXCEPT ![c] =
                               Call("awaitResponse", op, arg, h.req, 0, NoBody,
                                    NoOutcome)]
           ELSE /\ calls' = [calls EXCEPT ![c] =
                               Call("done", op, arg, NoRequest, 0, NoBody,
                                    MiddlewareHttpError("middleware"))]
                /\ UNCHANGED wire
    /\ clone' = [clone EXCEPT !.calls = @ \cup {c}]
    /\ UNCHANGED <<oauth_token, phase, client, new_outcome, boot, mw, cls, dec, qry>>

InitClone == InitReadyClient /\ cls = NoCls /\ dec = NoDec /\ qry = NoQry

NextClone ==
    \/ CloneClient
    \/ \E c \in CallIds, op \in CloneOps : \E arg \in ArgsOf(op) :
          CallStart(c, op, arg)
    \/ \E c \in CallIds, op \in CloneOps : \E arg \in ArgsOf(op) :
          CloneCallStart(c, op, arg)
    \/ \E c \in CallIds, status \in Statuses : CallResponse(c, status)
    \/ \E c \in CallIds, body \in CallDeliveries : CallBody(c, body)

SpecClone == InitClone /\ [][NextClone]_vars

(***************************************************************************)

(* Properties of the facade: construction, lifecycle, scoping, credentials *)
(***************************************************************************)
\* C1: a client exists only if the identity resolution of new returned a 2xx
\* response whose body was read and decoded to a user_id, which is the
\* client's; when that call ends with a non-2xx status, or without a response
\* at all, new returns that error and there is no client.
C1_ClientOnlyAfterResolvedIdentity ==
    /\ client.exists =>
          /\ phase = "Ready" /\ new_outcome.kind = "Ok"
          /\ boot.pc = "done" /\ boot.outcome.kind = "Ok"
          /\ 200 <= boot.status /\ boot.status <= 299
          /\ boot.body.read
          /\ \/ boot.body.text = BodyUser /\ client.user_id = 42
             \/ boot.body.text = BodyBoth /\ client.user_id = 7
    /\ (/\ boot.pc = "done"
        /\ \/ boot.outcome.kind = "MiddlewareHttpError"
           \/ boot.status < 200
           \/ boot.status > 299) =>
          /\ ~client.exists
          /\ phase = "Failed"
          /\ IsErr(new_outcome) /\ new_outcome = boot.outcome

\* new has returned the structured error of a 403 whose body also holds a
\* user_id, and there is no client.
C1_Witness ==
    /\ phase = "Failed" /\ ~client.exists
    /\ boot.status = 403 /\ boot.body = BodyText(BodyBoth)
    /\ new_outcome.kind = "ApiError"

\* The requests on the wire that are identity resolutions: GET {base}/user.
IdentityRequests(w) ==
    { i \in DOMAIN w : w[i].req.method = "GET" /\ w[i].req.url = UserUrl }

\* The requests on the wire that resource methods issued.
ResourceRequests(w) == { i \in DOMAIN w : w[i].from /= 0 }

\* C2: the lifecycle steps are Uninitialized -> Authenticating -> Ready or
\* Failed only; Ready and Failed are never left and nothing returns to
\* Uninitialized; the identity-resolution request is issued during
\* Authenticating only, at most once, and exactly once when Ready is reached;
\* resource requests are issued in Ready only.
C2_Lifecycle ==
    [][ /\ phase = "Uninitialized" => phase' \in {"Uninitialized", "Authenticating"}
        /\ phase = "Authenticating" => phase' \in {"Authenticating", "Ready", "Failed"}
        /\ phase = "Ready" => phase' = "Ready"
        /\ phase = "Failed" => phase' = "Failed"
        /\ phase' \in {"Uninitialized", "Authenticating", "Ready", "Failed"}
        /\ IdentityRequests(wire') /= IdentityRequests(wire) =>
              /\ phase = "Authenticating"
              /\ IdentityRequests(wire) = {}
              /\ Cardinality(IdentityRequests(wire')) = 1
        /\ phase' = "Ready" =>
              /\ Cardinality(IdentityRequests(wire')) = 1
              /\ \A i \in IdentityRequests(wire') : wire'[i].from = 0
        /\ ResourceRequests(wire') /= ResourceRequests(wire) =>
              phase = "Ready" /\ phase' = "Ready"
        /\ phase' /= "Ready" => ResourceRequests(wire') = {}
      ]_vars

\* A Ready facade has issued its identity resolution and then two resource
\* requests, and the first of them has returned.
C2_Witness ==
    /\ phase = "Ready"
    /\ Len(wire) = 3 /\ wire[1].from = 0
    /\ calls[1].pc = "done" /\ calls[2].pc = "awaitBody"

\* C3: every request a resource method of the client issued, whatever calls
\* came before it, has a URL that starts with {base}/user/{user_id}/ where
\* user_id is the value the bootstrap response held, and user_id() is that
\* value in every state in which the client exists.
C3_RequestsScopedUnderIdentity ==
    client.exists =>
       /\ \/ boot.body.text = BodyUser /\ UserId = 42
          \/ boot.body.text = BodyBoth /\ UserId = 7
       /\ \A i \in ResourceRequests(wire) :
             /\ boot.body.text = BodyUser =>
                   StartsWith(wire[i].req.url,
                              "https://api.webmaster.yandex.net/v4/user/42/")
             /\ boot.body.text = BodyBoth =>
                   StartsWith(wire[i].req.url,
                              "https://api.webmaster.yandex.net/v4/user/7/")
             /\ StartsWith(wire[i].req.url,
                           API_BASE_URL \o "/user/" \o ToString(UserId) \o "/")

\* The client of user 7 has listed the hosts and, after that call failed, has
\* deleted a host.
C3_Witness ==
    /\ client.exists /\ UserId = 7
    /\ calls[1].op = "get_hosts" /\ calls[1].pc = "done"
    /\ IsErr(calls[1].outcome)
    /\ calls[2].op = "delete_host" /\ calls[2].pc = "awaitResponse"
    /\ Len(wire) = 3

\* C4: every request that reached the base sender is what AuthMiddleware made
\* of the request the method built, and has exactly one Authorization header,
\* whose value is "OAuth " followed by the token given to new; every call that
\* got as far as waiting for a response has its request there; and the
\* middleware, given a request that already has Authorization headers, passes
\* on one with that single header and all its other headers.
C4_EveryRequestAuthorized ==
    /\ \A i \in DOMAIN wire :
          /\ HeaderValues(wire[i].req.headers, "authorization")
                = << "OAuth " \o oauth_token >>
          /\ wire[i].from = 0 =>
                wire[i].req = Handle(oauth_token, BuildRequest("fetch_user", 0, "")).req
          /\ wire[i].from /= 0 =>
                /\ calls[wire[i].from].req = wire[i].req
                /\ wire[i].req
                     = Handle(oauth_token,
                              BuildRequest(calls[wire[i].from].op, UserId,
                                           calls[wire[i].from].arg)).req
    /\ boot.req /= NoRequest =>
          \E i \in DOMAIN wire : wire[i].from = 0 /\ wire[i].req = boot.req
    /\ \A c \in CallIds :
          calls[c].req /= NoRequest =>
             Cardinality({ i \in DOMAIN wire : wire[i].from = c }) = 1
    /\ Len(wire) = Cardinality({ c \in CallIds : calls[c].req /= NoRequest })
                   + (IF boot.req /= NoRequest THEN 1 ELSE 0)
    /\ (mw.used /\ mw.out.next) =>
          /\ HeaderValues(mw.out.req.headers, "authorization")
                = << "OAuth " \o oauth_token >>
          /\ HeaderValues(mw.out.req.headers, "content-type")
                = HeaderValues(mw.req.headers, "content-type")
          /\ mw.out.req.method = mw.req.method
          /\ mw.out.req.url = mw.req.url
          /\ mw.out.req.body = mw.req.body

\* The bootstrap GET, a POST and a DELETE have reached the base sender, and
\* the middleware has passed on a request that came with two Authorization
\* headers.
C4_Witness ==
    /\ Len(wire) = 3
    /\ wire[1].req.method = "GET"
    /\ wire[2].req.method = "POST"
    /\ wire[3].req.method = "DELETE"
    /\ mw.used /\ mw.out.next
    /\ Len(HeaderValues(mw.req.headers, "authorization")) = 2

(***************************************************************************)
(* Properties of the response classifier                                   *)
(***************************************************************************)
\* C5: for the bootstrap call and every GET, POST and DELETE, the status
\* class alone decides the path: with a status in 200..299 the outcome is Ok
\* or the decode error of the success path, never ApiError or
\* GenericApiError, whatever the body; with any other status the outcome is
\* what parse_error makes of the response, ApiError or GenericApiError,
\* whatever the body.
C5_StatusClassAloneDecides ==
    cls.done =>
       /\ cls.op \in {"fetch_user", "get_hosts", "get_host", "add_host", "delete_host"}
       /\ (200 <= cls.status /\ cls.status <= 299) =>
             cls.outcome.kind \in {"Ok", "HttpError"}
       /\ (cls.status < 200 \/ cls.status > 299) =>
             /\ cls.outcome.kind \in {"ApiError", "GenericApiError"}
             /\ cls.outcome = ParseError(cls.status, cls.body)

\* add_host got a 299 whose body has the structured error shape, and
\* returned Ok with the host_id of that body.
C5_Witness ==
    /\ cls.done /\ cls.op = "add_host"
    /\ cls.status = 299 /\ cls.body = BodyText(BodyBoth)
    /\ cls.outcome.kind = "Ok" /\ cls.outcome.value.s = "h2"

\* C6: a response with a failure status whose body decodes as the structured
\* shape is ApiError with the status of the response and the whole decoded
\* object, optional fields included; a 403 with the ACCESS_FORBIDDEN body is
\* ApiError with status 403, code AccessForbidden and message "no rights".
C6_StructuredErrorCarriesStatusAndObject ==
    (cls.done /\ (cls.status < 200 \/ cls.status > 299) /\ cls.body.read) =>
       /\ ErrorResponseFromStr(cls.body.text).ok =>
             /\ cls.outcome.kind = "ApiError"
             /\ cls.outcome.status = cls.status
             /\ cls.outcome.response = ErrorResponseFromStr(cls.body.text)
       /\ cls.body.text \in {BodyForbidden, BodyUnknownCode, BodyBoth} =>
             cls.outcome.kind = "ApiError" /\ cls.outcome.status = cls.status
       /\ cls.body.text = BodyForbidden =>
             /\ cls.outcome.response.error_code = Known("AccessForbidden")
             /\ cls.outcome.response.error_message = "no rights"
             /\ ~cls.outcome.response.acceptable_types.some
             /\ ~cls.outcome.response.valid_until.some
       /\ cls.body.text = BodyUnknownCode =>
             /\ cls.outcome.response.error_code = Unknown("SOME_UNKNOWN_ERROR")
             /\ cls.outcome.response.error_message = "unknown error occurred"
             /\ cls.outcome.response.acceptable_types = Some(<<"text/xml">>)
             /\ cls.outcome.response.valid_until = Some("2024-01-01")
       /\ cls.body.text = BodyBoth =>
             /\ cls.outcome.response.error_code = Known("InvalidOauthToken")
             /\ cls.outcome.response.error_message = "expired"

\* get_host got the 403 with the ACCESS_FORBIDDEN body and returned ApiError
\* with status 403.
C6_Witness ==
    /\ cls.done /\ cls.op = "get_host"
    /\ cls.status = 403 /\ cls.body = BodyText(BodyForbidden)
    /\ cls.outcome.kind = "ApiError" /\ cls.outcome.status = 403

\* C7: a response with a failure status whose body was read and does not
\* decode as the structured shape is GenericApiError, and its message holds
\* the status code and ends with the text of the body as it came; a 500 with
\* the body <html>Internal Server Error</html> gives the message
\* "Status: 500 Internal Server Error, Error: <html>Internal Server Error</html>".
C7_GenericErrorCarriesStatusAndText ==
    (cls.done /\ (cls.status < 200 \/ cls.status > 299) /\ cls.body.read) =>
       /\ (\/ ~ErrorResponseFromStr(cls.body.text).ok
           \/ cls.body.text \in {BodyHtml, BodyUser, BodyNoMessage, BodyHost, ""}) =>
             /\ cls.outcome.kind = "GenericApiError"
             /\ StartsWith(cls.outcome.msg,
                           "Status: " \o ToString(cls.status) \o " ")
             /\ EndsWith(cls.outcome.msg, ", Error: " \o cls.body.text)
       /\ (cls.status = 500 /\ cls.body.text = BodyHtml) =>
             cls.outcome.msg
               = "Status: 500 Internal Server Error, Error: <html>Internal Server Error</html>"

\* delete_host got the 500 with the HTML body and returned GenericApiError.
C7_Witness ==
    /\ cls.done /\ cls.op = "delete_host"
    /\ cls.status = 500 /\ cls.body = BodyText(BodyHtml)
    /\ cls.outcome.kind = "GenericApiError"

(***************************************************************************)
(* Properties of the error-code taxonomy                                   *)
(***************************************************************************)
\* C8: decoding the body {error_code, error_message} whose code is the
\* SCREAMING_SNAKE_CASE name of a unit variant gives that variant and the
\* message as it was written; so it is for every code the tests decode.
C8_KnownCodeDecodesToItsVariant ==
    (dec.mode = "decode" /\ dec.done) =>
       /\ \A v \in KnownVariantSet :
             dec.code = WireName[v] =>
                /\ dec.out.ok
                /\ dec.out.error_code = Known(v)
                /\ dec.out.error_message = dec.message
       /\ \A p \in TestedCodes :
             dec.code = p[1] =>
                /\ dec.out.ok
                /\ dec.out.error_code = Known(p[2])
                /\ dec.out.error_message = dec.message

\* The body with TOO_MANY_REQUESTS_ERROR and a message that needs escaping in
\* JSON has been decoded.
C8_Witness ==
    /\ dec.mode = "decode" /\ dec.done
    /\ dec.code = "TOO_MANY_REQUESTS_ERROR"
    /\ dec.message = "no \"rights\" \\ here"
    /\ dec.out.error_code = Known("TooManyRequestsError")

\* C9: decoding the body whose code is a string outside the closed set
\* succeeds and gives Unknown holding exactly that string; no code string
\* makes the decoding fail.
C9_UnknownCodeFallsBack ==
    (dec.mode = "decode" /\ dec.done) =>
       /\ dec.out.ok
       /\ dec.code \notin ClosedSet =>
             /\ dec.out.error_code = Unknown(dec.code)
             /\ dec.out.error_message = dec.message
       /\ dec.code \in {"SOME_UNKNOWN_ERROR", "invalid_url", "InvalidUrl",
                        "INVALID_URL ", "UNKNOWN", ""} =>
             dec.out.error_code = [variant |-> "Unknown", raw |-> dec.code]

\* The body with SOME_UNKNOWN_ERROR has been decoded.
C9_Witness ==
    /\ dec.mode = "decode" /\ dec.done
    /\ dec.code = "SOME_UNKNOWN_ERROR"
    /\ dec.out.ok /\ dec.out.error_code = Unknown("SOME_UNKNOWN_ERROR")

\* C10: Display of a unit variant is its upper-snake-case code string with
\* no quotes (InvalidUrl gives INVALID_URL, and so for every code of the
\* tests); Display of Unknown(s) is s, quotes and all.
C10_DisplayIsTheCodeString ==
    dec.displayed =>
       /\ dec.value.variant /= "Unknown" =>
             /\ dec.shown = WireName[dec.value.variant]
             /\ ~Contains(dec.shown, "\"")
             /\ \A i \in 1..Len(dec.shown) :
                   \/ IsUpper(SubSeq(dec.shown, i, i))
                   \/ SubSeq(dec.shown, i, i) = "_"
       /\ dec.value = Known("InvalidUrl") => dec.shown = "INVALID_URL"
       /\ \A p \in TestedCodes : dec.value = Known(p[2]) => dec.shown = p[1]
       /\ dec.value.variant = "Unknown" => dec.shown = dec.value.raw

\* InvalidUrl has been displayed as INVALID_URL.
C10_Witness ==
    /\ dec.mode = "display" /\ dec.displayed
    /\ dec.value = Known("InvalidUrl") /\ dec.shown = "INVALID_URL"

(***************************************************************************)
(* Properties of the query encoder and of the request bodies               *)
(***************************************************************************)
\* The positions of the character c in s, and where the pieces between them
\* start.
PositionsOf(c, s) == { i \in 1..Len(s) : SubSeq(s, i, i) = c }

PieceStarts(c, s) == {1} \cup { i + 1 : i \in PositionsOf(c, s) }

\* The k-th start, and the end of the piece that starts at a.
StartAt(starts, k) ==
    CHOOSE a \in starts : Cardinality({ b \in starts : b < a }) = k - 1

PieceEnd(c, s, a) ==
    IF \E j \in PositionsOf(c, s) : j >= a
    THEN (CHOOSE j \in PositionsOf(c, s) :
             j >= a /\ \A k \in PositionsOf(c, s) : k >= a => j <= k) - 1
    ELSE Len(s)

\* The pieces of s between the occurrences of the character c.
SplitOn(c, s) ==
    [ k \in 1..Cardinality(PieceStarts(c, s)) |->
        SubSeq(s, StartAt(PieceStarts(c, s), k),
               PieceEnd(c, s, StartAt(PieceStarts(c, s), k))) ]

\* The key=value pieces of a query string, and the key and the value of one.
QueryPairs(text) == IF text = "" THEN <<>> ELSE SplitOn("&", text)

PairKey(pair) ==
    IF IndexOf("=", pair) = 0 THEN pair ELSE SubSeq(pair, 1, IndexOf("=", pair) - 1)

PairValue(pair) ==
    IF IndexOf("=", pair) = 0 THEN ""
    ELSE SubSeq(pair, IndexOf("=", pair) + 1, Len(pair))

\* The positions of the pairs written under a key.
PairsUnder(pairs, key) == { i \in 1..Len(pairs) : PairKey(pairs[i]) = key }

\* How many pairs a field is to be written as.
PairsDue(f) ==
    CASE f.kind = "scalar" -> 1
      [] f.kind = "opt"    -> IF f.some THEN 1 ELSE 0
      [] f.kind = "vec"    -> Len(f.items)

FieldKeys(filter) == { filter[i].key : i \in 1..Len(filter) }

\* The pairs of a query string are those due to the fields of the filter:
\* under the bare name of each field as many pairs as are due, and no pair
\* under anything else.
PairsMatchFilter(pairs, filter) ==
    /\ \A i \in 1..Len(filter) :
          Cardinality(PairsUnder(pairs, filter[i].key)) = PairsDue(filter[i])
    /\ \A i \in 1..Len(pairs) :
          /\ PairKey(pairs[i]) \in FieldKeys(filter)
          /\ ~Contains(pairs[i], "[") /\ ~Contains(pairs[i], "]")
          /\ ~Contains(pairs[i], ",") /\ ~Contains(pairs[i], "%5B")
          /\ ~Contains(pairs[i], "%2C")

\* The filter with no optional field and the indicators A, B.
TwoIndicators ==
    QueryAnalyticsRequest(<< EnumVal("TotalShows"), EnumVal("AvgClickPosition") >>,
                          None(NoVal), None(NoVal), None(NoVal))

\* C11: the query string of every filter that was encoded has no key for an
\* absent optional field, exactly one key=value pair for each present scalar
\* field and one pair per element of an array field, all under the bare name
\* of the field (no index, no brackets, no comma join); the filter with a
\* two-element array and its optional fields absent gives exactly the two
\* repeated pairs of the array.
C11_UnindexedRepetition ==
    (qry.last.op \in FilterOps /\ qry.last.result.ok) =>
        /\ PairsMatchFilter(QueryPairs(qry.last.result.text), qry.last.filter)
        /\ qry.last.filter = TwoIndicators =>
              qry.last.result.text =
                 "query_indicator=TOTAL_SHOWS&query_indicator=AVG_CLICK_POSITION"

C11_Witness ==
    /\ qry.last.op = "get_query_analytics" /\ qry.last.result.ok
    /\ qry.last.filter = TwoIndicators
    /\ Len(QueryPairs(qry.last.result.text)) = 2
    /\ Len(qry.sent) = 1

\* The filter {date_from: Some(2024-01-01), date_to: None} of the field type
\* DateTime<Utc>, and the call get_sqi_history("h1", that filter) of the
\* client of user 42 having sent its request.
DateFromOnly == SqiHistoryRequest(Some(Midnight), None(NoVal))

SqiHistorySent ==
    /\ qry.last.op = "get_sqi_history" /\ qry.last.host_id = "h1"
    /\ qry.last.filter = DateFromOnly
    /\ qry.last.result.ok /\ Len(qry.sent) = 1
    /\ client.user_id = 42

\* C12 as stated: the request is GET /user/42/hosts/h1/sqi-history with the
\* query string exactly date_from=2024-01-01 and no date_to key.
C12_AsStated ==
    SqiHistorySent =>
        /\ qry.sent[1].method = "GET"
        /\ qry.sent[1].url =
              API_BASE_URL \o "/user/42/hosts/h1/sqi-history?date_from=2024-01-01"

\* C12: get_sqi_history with the filter {date_from: Some(2024-01-01T00:00:00Z),
\* date_to: None} for user 42 and host h1 issues GET
\* /user/42/hosts/h1/sqi-history with the query string exactly
\* date_from=2024-01-01T00%3A00%3A00Z (the timestamp in RFC 3339,
\* percent-encoded) and no date_to key.
C12_SqiHistoryQuery ==
    SqiHistorySent =>
        /\ qry.sent[1].method = "GET"
        /\ qry.sent[1].url =
              API_BASE_URL
              \o "/user/42/hosts/h1/sqi-history?date_from=2024-01-01T00%3A00%3A00Z"
        /\ qry.last.result.text = "date_from=2024-01-01T00%3A00%3A00Z"
        /\ ~Contains(qry.sent[1].url, "date_to")

C12_Witness ==
    /\ SqiHistorySent
    /\ PairsUnder(QueryPairs(qry.last.result.text), "date_from") = {1}
    /\ qry.sent[1].headers = << <<"authorization", "OAuth y0_secret">> >>

(***************************************************************************)
(* Properties of the success path and of the error propagation             *)
(***************************************************************************)
\* The body of a response does not give a value of the success type of the
\* operation: it could not be read, or its text is not of that shape.
DecodeFails(op, body) == ~body.read \/ ~DecodeSuccess(op, body.text).ok

\* C13: a response with a status in 200..299 whose body does not decode as
\* the success type of the bootstrap call, of a GET or of a POST is reported
\* as the decode failure (HttpError, from response.json()): the outcome is
\* not ApiError, not GenericApiError and not a value; so is a 200 to
\* get_hosts whose body is the ACCESS_FORBIDDEN error object.
C13_DecodeFailureIsNotApiError ==
    /\ (/\ cls.done /\ cls.op # "delete_host"
        /\ 200 <= cls.status /\ cls.status <= 299
        /\ DecodeFails(cls.op, cls.body)) =>
          /\ cls.outcome.kind = "HttpError"
          /\ cls.outcome.kind \notin {"ApiError", "GenericApiError", "Ok"}
          /\ cls.outcome.response = NoErrorResponse
          /\ cls.outcome.value = NoValue
    /\ (/\ cls.done /\ cls.op = "get_hosts" /\ cls.status = 200
        /\ cls.body = BodyText(BodyForbidden)) =>
          cls.outcome.kind = "HttpError"

\* fetch_user got a 200 whose body is the ACCESS_FORBIDDEN error object.
C13_Witness ==
    /\ cls.done /\ cls.op = "fetch_user" /\ cls.status = 200
    /\ cls.body = BodyText(BodyForbidden)
    /\ cls.outcome.kind = "HttpError"

\* The calls of the state machine: the bootstrap call 0 and the calls made
\* on the client.
CallAt(b, cs, c) == IF c = 0 THEN b ELSE cs[c]

AllCallIds == {0} \cup CallIds

\* No call has more than one request on the wire, a call that has not sent
\* has none, and the bootstrap request is the only request for the identity.
AtMostOneRequest ==
    /\ \A c \in AllCallIds :
          /\ Cardinality(RequestsOf(wire, c)) <= 1
          /\ CallAt(boot, calls, c).pc \in {"idle", "built"} =>
                RequestsOf(wire, c) = {}
          /\ CallAt(boot, calls, c).outcome = MiddlewareHttpError("middleware") =>
                RequestsOf(wire, c) = {}
    /\ \A i \in 1..Len(wire) : wire[i].req.url = UserUrl => wire[i].from = 0

\* A step leaves a call that has returned as it is, with what it sent; a
\* call whose outcome becomes an error returns in that step, which sends
\* nothing; and what new returned stays returned.
ErrorsEndTheCall ==
    /\ \A c \in AllCallIds :
          /\ CallAt(boot, calls, c).pc = "done" =>
                /\ CallAt(boot', calls', c) = CallAt(boot, calls, c)
                /\ RequestsOf(wire', c) = RequestsOf(wire, c)
          /\ (/\ IsErr(CallAt(boot', calls', c).outcome)
              /\ ~IsErr(CallAt(boot, calls, c).outcome)) =>
                /\ CallAt(boot', calls', c).pc = "done"
                /\ wire' = wire
    /\ phase \in {"Ready", "Failed"} =>
          /\ new_outcome' = new_outcome /\ phase' = phase
          /\ boot' = boot
    /\ IsErr(boot'.outcome) => new_outcome' = boot'.outcome

\* C14: no error is retried or recovered locally: the bootstrap call and
\* every get, post and delete put at most one request on the wire; a
\* transport, encoding, API or decode error ends the call in the step it
\* arises, with nothing more sent, and is what the caller gets; a call that
\* has returned sends nothing again, and the identity is requested once.
C14_NoRetryNoRecovery == []AtMostOneRequest /\ [][ErrorsEndTheCall]_vars

\* Two calls failed, one without a response and one with a 403; each sent
\* one request and the bootstrap call the third.
C14_Witness ==
    /\ calls[1].pc = "done" /\ calls[1].outcome = MiddlewareHttpError("reqwest")
    /\ calls[2].pc = "done" /\ calls[2].outcome.kind = "ApiError"
    /\ calls[2].outcome.status = 403
    /\ Len(wire) = 3
    /\ \A c \in {0, 1, 2} : Cardinality(RequestsOf(wire, c)) = 1

\* The token has a character no header value may hold (the newline of a
\* token read from a file).
TokenNotEncodable == Contains(oauth_token, "\n") \/ Contains(oauth_token, "\r")

\* What a call that has returned is to return, from its own request and its
\* own response alone: without a request, the middleware's refusal of the
\* token or, the token being fine, the failure to make the body JSON.
OwnOutcome(call) ==
    IF call.req = NoRequest
    THEN IF TokenNotEncodable THEN MiddlewareHttpError("middleware")
         ELSE ParseErrorVariant("serialize")
    ELSE IF call.status = 0 THEN MiddlewareHttpError("reqwest")
    ELSE OutcomeOf(call.op, call.status, call.body)

\* Every call on the client sent the request of its own method and argument
\* with the credential, and returned what its own response gives.
CallsAreTheirOwn ==
    \A c \in CallIds :
       /\ calls[c].pc \notin {"idle"} /\ calls[c].req # NoRequest =>
             /\ calls[c].req =
                   Send(oauth_token,
                        BuildRequest(calls[c].op, client.user_id, calls[c].arg)).req
             /\ \E i \in RequestsOf(wire, c) : wire[i].req = calls[c].req
       /\ calls[c].pc = "done" => calls[c].outcome = OwnOutcome(calls[c])

\* A step of one call leaves the other calls, the credential and the client
\* (its user_id and its encoder configuration) as they are.
NothingShared ==
    /\ oauth_token' = oauth_token
    /\ client.exists => client' = client
    /\ \A c, d \in CallIds : (c # d /\ calls'[c] # calls[c]) => calls'[d] = calls[d]

\* C15: calls made through the same Ready client are independent: under
\* every interleaving of their send, response and body steps each call
\* returns what its own request and response give, whatever the other call
\* is doing and in whatever order they return, and no step changes the
\* credential or the user_id.
C15_ConcurrentCallsIndependent == []CallsAreTheirOwn /\ [][NothingShared]_vars

\* The second call has returned an API error while the first, sent before
\* it, still waits for its response.
C15_Witness ==
    /\ phase = "Ready"
    /\ calls[1].pc = "awaitResponse"
    /\ calls[2].pc = "done" /\ calls[2].outcome.kind = "ApiError"
    /\ RequestsOf(wire, 1) = {2} /\ RequestsOf(wire, 2) = {3}

\* C16: with a token that cannot be made a header value nothing ever reaches
\* the base sender: the bootstrap call inside new returns the middleware
\* error without a request on the wire, new returns that error and there is
\* no client (so no call can be made on one), and the middleware given any
\* request fails without running the next layer.
C16_UnencodableTokenFailsBeforeIO ==
    TokenNotEncodable =>
       /\ wire = <<>>
       /\ ~client.exists /\ phase # "Ready"
       /\ boot.pc \notin {"awaitResponse", "awaitBody"} /\ boot.req = NoRequest
       /\ boot.pc = "done" =>
             /\ boot.outcome = MiddlewareHttpError("middleware")
             /\ new_outcome = MiddlewareHttpError("middleware")
             /\ phase = "Failed"
       /\ \A c \in CallIds : calls[c] = IdleCall
       /\ mw.used => (~mw.out.next /\ mw.out.req = mw.req)

\* new has returned the middleware error for the token with the newline, and
\* the middleware has refused a request of its own.
C16_Witness ==
    /\ oauth_token = "y0_secret\n"
    /\ phase = "Failed" /\ boot.pc = "done"
    /\ new_outcome.kind = "MiddlewareHttpError"
    /\ mw.used /\ ~mw.out.next
    /\ wire = <<>>

\* A parsed text is the JSON object of an AddHostRequest with this host_url.
IsAddHostJson(r, host_url) ==
    /\ r.ok /\ r.val.t = "obj"
    /\ CountKey(r.val.items, "host_url") = 1
    /\ ValueOf(r.val.items, "host_url") = JStr(host_url)
    /\ CountKey(r.val.items, "verification_type") = 1

\* C17: the request of a POST has the JSON text of its body as its body (it
\* parses back to the host_url given) and the single Content-Type header
\* application/json; a call whose body or whose filter failed to serialize
\* returns that error (ParseError for the body, SerdeQsError for the filter)
\* and sends nothing.
C17_PostJsonAndEncodingFailuresSendNothing ==
    /\ (qry.last.op = "add_host" /\ qry.last.result.ok) =>
          /\ Len(qry.sent) = 1
          /\ qry.sent[1].method = "POST"
          /\ qry.sent[1].url = API_BASE_URL \o "/user/42/hosts"
          /\ HeaderValues(qry.sent[1].headers, "content-type")
                = << "application/json" >>
          /\ qry.sent[1].body = qry.last.result.text
          /\ IsAddHostJson(ParseJson(qry.sent[1].body), qry.last.arg)
    /\ (qry.last.op # "none" /\ ~qry.last.result.ok) =>
          /\ qry.sent = <<>>
          /\ qry.last.outcome.kind =
                (IF qry.last.op \in FilterOps THEN "SerdeQsError" ELSE "ParseError")

\* add_host of a host_url with quotes sent its POST.
C17_Witness ==
    /\ qry.last.op = "add_host" /\ qry.last.arg = "say \"hi\""
    /\ qry.last.result.ok /\ Len(qry.sent) = 1
    /\ qry.sent[1].body
         = "{\"host_url\":\"say \\\"hi\\\"\",\"verification_type\":\"DNS\"}"

\* C18: delete returns Ok(()) for every status in 200..299 whatever the body
\* is (empty, not JSON, a structured error object, or not readable at all:
\* it is not decoded), and for every other status the error the classifier
\* makes of the response.
C18_DeleteIsStatusOnly ==
    (cls.done /\ cls.op = "delete_host") =>
       /\ (200 <= cls.status /\ cls.status <= 299) =>
             /\ cls.outcome = Ok(NoValue)
             /\ ~ReadsBody(cls.op, cls.status)
       /\ (cls.status < 200 \/ cls.status > 299) =>
             /\ cls.outcome = ParseError(cls.status, cls.body)
             /\ cls.outcome.kind \in {"ApiError", "GenericApiError"}
             /\ cls.body.read =>
                   (cls.outcome.kind = "ApiError"
                      <=> ErrorResponseFromStr(cls.body.text).ok)

\* delete_host got a 200 whose body is the ACCESS_FORBIDDEN error object and
\* returned Ok(()).
C18_Witness ==
    /\ cls.done /\ cls.op = "delete_host" /\ cls.status = 200
    /\ cls.body = BodyText(BodyForbidden)
    /\ cls.outcome.kind = "Ok"

(***************************************************************************)
(* Properties of the decoding of error bodies with other fields            *)
(***************************************************************************)
\* C19: an error body decodes whatever optional and other fields it has:
\* acceptable_types and valid_until come out as given when the body has
\* them and as None when it has not, the code and the message come out as
\* given, and members of any other name (host_id, limit, sitemap_id,
\* verified, extra_field) change nothing.
C19_OptionalAndExtraFields ==
    (dec.mode = "fields" /\ dec.done) =>
       /\ dec.out.ok
       /\ dec.out.acceptable_types = dec.acc
       /\ dec.out.valid_until = dec.until
       /\ dec.out.error_message = dec.message
       /\ dec.code = "NO_CHANGES" => dec.out.error_code = Known("NoChanges")
       /\ dec.code = "HOST_NOT_FOUND" => dec.out.error_code = Known("HostNotFound")
       /\ dec.code = "NEW_CODE" => dec.out.error_code = Unknown("NEW_CODE")

\* The body of test_parse_with_extra_fields_ignored, with acceptable_types
\* too and no valid_until, has been decoded.
C19_Witness ==
    /\ dec.mode = "fields" /\ dec.done /\ dec.out.ok
    /\ dec.code = "HOST_NOT_FOUND"
    /\ Contains(dec.extras, "extra_field")
    /\ dec.out.acceptable_types = Some(<< "a/b", "c/d" >>)
    /\ dec.out.valid_until = None("")

C21_ReadFailureIsWrapped ==
    (cls.done /\ (cls.status < 200 \/ cls.status > 299) /\ ~cls.body.read) =>
       /\ cls.outcome.kind = "GenericApiError"
       /\ cls.outcome.kind # "HttpError"
       /\ StartsWith(cls.outcome.msg, "Status: " \o ToString(cls.status) \o " ")
       /\ EndsWith(cls.outcome.msg,
                   ", Failed to read error response: " \o cls.body.text)
       /\ cls.status = 500 =>
             cls.outcome.msg =
                "Status: 500 Internal Server Error, Failed to read error response: "
                \o "error decoding response body"

\* get_host got a 500 whose body could not be read.
C21_Witness ==
    /\ cls.done /\ cls.op = "get_host" /\ cls.status = 500
    /\ ~cls.body.read /\ cls.body.text = "error decoding response body"
    /\ cls.outcome.kind = "GenericApiError"

(***************************************************************************)
(* Properties of dropped calls                                             *)
(***************************************************************************)
\* What new gave the client of user 42.
ClientAsBuilt == [exists |-> TRUE, user_id |-> 42, qs |-> QsConfig]

\* A call that was not dropped sent the request a client that never had a
\* dropped call sends for its method and argument, and returned what its
\* own response gives.
AsIfNeverIssued(call) ==
    /\ call.pc \in {"awaitResponse", "awaitBody", "done"} =>
          call.req = Send("y0_secret", BuildRequest(call.op, 42, call.arg)).req
    /\ call.pc = "done" => call.outcome = OwnOutcome(call)

\* C22: a call dropped before it was polled, while it waited for the
\* response or while it waited for the body leaves the credential, the
\* user_id and the encoder configuration of the client as new made them, and
\* returns nothing; every other call, made before or after it, sends the
\* request and returns the outcome it would without the dropped call.
C22_CancelLeavesClientIntact ==
    /\ oauth_token = "y0_secret"
    /\ client = ClientAsBuilt
    /\ UserId = 42
    /\ \A c \in CallIds :
          /\ calls[c].pc = "cancelled" => calls[c].outcome = NoOutcome
          /\ calls[c].pc # "cancelled" => AsIfNeverIssued(calls[c])
          /\ (calls[c].pc = "cancelled" /\ calls[c].req = NoRequest) =>
                RequestsOf(wire, c) = {}

\* The first call was dropped while it waited for its body; the second,
\* made on the same client, has returned the hosts.
C22_Witness ==
    /\ calls[1].pc = "cancelled" /\ calls[1].status # 0
    /\ calls[2].pc = "done" /\ calls[2].op = "get_hosts"
    /\ calls[2].outcome.kind = "Ok"
    /\ calls[2].req.url = API_BASE_URL \o "/user/42/hosts"

(***************************************************************************)
(* Properties of the values in the query of a request URL                  *)
(***************************************************************************)
\* The text of a URL after its first "?".
QueryOf(url) ==
    IF IndexOf("?", url) = 0 THEN ""
    ELSE SubSeq(url, IndexOf("?", url) + 1, Len(url))

\* The character a percent triplet stands for (for the characters of the
\* model).
TripletChar(t) ==
    CASE t = "%20" -> " "
      [] t = "%3A" -> ":"
      [] t = "%2F" -> "/"
      [] t = "%3F" -> "?"
      [] t = "%26" -> "&"
      [] t = "%3D" -> "="
      [] t = "%2B" -> "+"
      [] t = "%25" -> "%"
      [] t = "%23" -> "#"
      [] t = "%2C" -> ","
      [] t = "%2A" -> "*"
      [] t = "%5B" -> "["
      [] t = "%5D" -> "]"
      [] OTHER     -> "?undefined?"

\* What a percent-encoded value stands for.
RECURSIVE PercentDecode(_)
PercentDecode(s) ==
    IF s = "" THEN ""
    ELSE IF Head(s) = "%" /\ Len(s) >= 3
    THEN TripletChar(SubSeq(s, 1, 3)) \o PercentDecode(SubSeq(s, 4, Len(s)))
    ELSE IF Head(s) = "+" THEN " " \o PercentDecode(Tail(s))
    ELSE Head(s) \o PercentDecode(Tail(s))

\* The characters a percent-encoded value is written with.
EncodedAlphabet == UpperAlphabet \o LowerAlphabet \o DigitAlphabet \o "-_.~*+%"

IsPercentEncoded(s) ==
    \A i \in 1..Len(s) : IndexOf(SubSeq(s, i, i), EncodedAlphabet) > 0

\* The values of the fields of a filter that are written.
WrittenValues(filter) ==
    UNION { CASE filter[i].kind = "vec" ->
                   { ScalarText(filter[i].items[k]) : k \in 1..Len(filter[i].items) }
              [] filter[i].some -> { ScalarText(filter[i].v) }
              [] OTHER -> {}
            : i \in 1..Len(filter) }

\* The names the API gives the verification types.
VerificationTypeName == [Dns |-> "DNS", MetaTag |-> "META_TAG", HtmlFile |-> "HTML_FILE"]

\* What the last call was to put as values into its query: the values of the
\* filter, the name of the verification type, the url.
RawValues(last) ==
    IF last.op \in FilterOps THEN WrittenValues(last.filter)
    ELSE IF last.op = "verify_host"
    THEN { VerificationTypeName[last.arg] }
    ELSE { last.arg }

\* Every value in the query of the URL is percent-encoded and stands for a
\* value the call was given.
ValuesEncoded(pairs, raw) ==
    \A i \in 1..Len(pairs) :
       /\ IsPercentEncoded(PairValue(pairs[i]))
       /\ PercentDecode(PairValue(pairs[i])) \in raw

\* C23: every value in the query of a URL the client sends is in
\* percent-encoded form and stands for the value the call was given: those
\* the query encoder writes from a filter, the verification_type of
\* verify_host and the url of get_important_urls_history.
C23_QueryValuesPercentEncoded ==
    (qry.last.op \in FilterOps \cup {"verify_host", "get_important_urls_history"}
       /\ Len(qry.sent) = 1) =>
       /\ ValuesEncoded(QueryPairs(QueryOf(qry.sent[1].url)), RawValues(qry.last))
       /\ qry.last.op = "get_important_urls_history" =>
             /\ Len(QueryPairs(QueryOf(qry.sent[1].url))) = 1
             /\ PairKey(QueryPairs(QueryOf(qry.sent[1].url))[1]) = "url"
       /\ qry.last.op = "verify_host" =>
             /\ Len(QueryPairs(QueryOf(qry.sent[1].url))) = 1
             /\ PairKey(QueryPairs(QueryOf(qry.sent[1].url))[1]) = "verification_type"
       /\ (qry.last.op = "get_important_urls_history" /\ qry.last.arg = "x=1&y=*") =>
             QueryOf(qry.sent[1].url) = "url=x%3D1%26y%3D%2A"

\* get_important_urls_history of a url with a space, a colon and slashes
\* sent its request.
C23_Witness ==
    /\ qry.last.op = "get_important_urls_history"
    /\ qry.last.arg = "https://example.com/a b"
    /\ Len(qry.sent) = 1
    /\ QueryOf(qry.sent[1].url) = "url=https%3A%2F%2Fexample.com%2Fa%20b"

(***************************************************************************)
(* Properties of the middleware's effect on the request                    *)
(***************************************************************************)
\* Two requests differ in nothing but their Authorization headers.
SameButAuthorization(given, handed) ==
    /\ handed.method = given.method
    /\ handed.url = given.url
    /\ handed.body = given.body
    /\ RemoveHeader(handed.headers, "authorization")
         = RemoveHeader(given.headers, "authorization")

\* The request the method of a call on the wire built.
BuiltFor(from) ==
    IF from = 0 THEN BuildRequest("fetch_user", 0, "")
    ELSE BuildRequest(calls[from].op, client.user_id, calls[from].arg)

\* C24: the request AuthMiddleware hands to the next layer has the method,
\* the URL with its path and query, the body and every header other than
\* Authorization of the request it was given, for the requests of the
\* client's methods and for a request that came with headers of its own.
C24_MiddlewareTouchesOnlyAuthorization ==
    /\ \A i \in 1..Len(wire) :
          SameButAuthorization(BuiltFor(wire[i].from), wire[i].req)
    /\ (mw.used /\ mw.out.next) => SameButAuthorization(mw.req, mw.out.req)
    /\ (mw.used /\ ~mw.out.next) => mw.out.req = mw.req

\* The POST of add_host is on the wire with its Content-Type header, and the
\* middleware has handled the request with headers of its own.
C24_Witness ==
    /\ \E i \in 1..Len(wire) :
          /\ wire[i].req.method = "POST"
          /\ HeaderValues(wire[i].req.headers, "content-type")
               = << "application/json" >>
          /\ wire[i].req.body # ""
    /\ mw.used /\ mw.out.next
    /\ mw.req.url = "https://example.org/x?a=1"
    /\ Len(mw.out.req.headers) = 2

(***************************************************************************)
(* Properties of the bootstrap request                                     *)
(***************************************************************************)
\* The user_id member of a JSON object text (parsed is what the parser made
\* of it).
UserIdMember(parsed) == ValueOf(parsed.val.items, "user_id").n

\* C25: the bootstrap request is GET {base}/user with no body, and it is the
\* only request whose path has no account id: every other request is under
\* {base}/user/<user_id>/; when its response has a 2xx status and the body
\* {"user_id": n}, new returns a client whose user_id() is n (42 for the
\* body {"user_id": 42}).
C25_BootstrapRequestAndIdentity ==
    /\ \A i \in 1..Len(wire) :
          /\ wire[i].from = 0 =>
                /\ wire[i].req.method = "GET"
                /\ wire[i].req.url = "https://api.webmaster.yandex.net/v4/user"
                /\ wire[i].req.body = ""
          /\ wire[i].from # 0 =>
                StartsWith(wire[i].req.url,
                           "https://api.webmaster.yandex.net/v4/user/"
                           \o ToString(UserId) \o "/")
    /\ (boot.pc = "done" /\ boot.body.read /\ IsSuccess(boot.status)
          /\ DecodeSuccess("fetch_user", boot.body.text).ok) =>
          /\ phase = "Ready" /\ client.exists
          /\ UserId = UserIdMember(ParseJson(boot.body.text))
          /\ boot.body.text = BodyUser => UserId = 42

\* new got a 200 with {"user_id": 42}; the client's calls are under /user/42/.
C25_Witness ==
    /\ phase = "Ready" /\ boot.status = 200 /\ boot.body = BodyText(BodyUser)
    /\ UserId = 42
    /\ Len(wire) = 2
    /\ wire[1].req.url = "https://api.webmaster.yandex.net/v4/user"
    /\ StartsWith(wire[2].req.url, "https://api.webmaster.yandex.net/v4/user/42/")

(***************************************************************************)
(* Properties of the rendered errors                                       *)
(***************************************************************************)
\* The string a code is displayed as, read off the code itself.
CodeString(value) ==
    IF value.variant = "Unknown" THEN value.raw ELSE WireName[value.variant]

\* C26: the message rendered for a structured ApiError is
\* "API error (<CODE>): <message>", <CODE> being the Display string of its
\* error code (the upper-snake-case name of a known code, the raw string of
\* an Unknown one) and <message> its error_message as it is; a decoded code
\* and message are rendered as the body spelled them.
C26_ApiErrorRendering ==
    dec.rendered.set =>
       /\ dec.rendered.text =
             "API error (" \o CodeString(dec.out.error_code) \o "): "
             \o dec.out.error_message
       /\ Contains(dec.rendered.text, CodeString(dec.out.error_code))
       /\ Contains(dec.rendered.text, dec.out.error_message)
       /\ dec.mode \in {"decode", "fields"} =>
             dec.rendered.text =
                "API error (" \o dec.code \o "): " \o dec.message
       /\ (dec.mode = "render" /\ dec.out.error_code = Known("HostNotFound")) =>
             /\ Contains(dec.rendered.text, "HOST_NOT_FOUND")
             /\ Contains(dec.rendered.text, "Host not found in user's list")

\* The 404 of test_error_display has been rendered.
C26_Witness ==
    /\ dec.rendered.set
    /\ dec.mode = "render" /\ dec.rendered.status = 404
    /\ dec.out.error_code = Known("HostNotFound")
    /\ dec.rendered.text =
          "API error (HOST_NOT_FOUND): Host not found in user's list"

(***************************************************************************)
(* Properties of the outcomes of a call                                    *)
(***************************************************************************)
\* The outcome o carries what its kind carries and nothing of another kind.
DecodedValue(o) ==
    o.kind = "Ok" /\ o.response = NoErrorResponse /\ o.msg = ""

StructuredApiError(o, status) ==
    /\ o.kind = "ApiError" /\ o.response.ok /\ o.status = status
    /\ o.msg = "" /\ o.value = NoValue

GenericError(o) ==
    /\ o.kind = "GenericApiError" /\ o.response = NoErrorResponse
    /\ o.msg /= "" /\ o.value = NoValue

DecodeFailure(o) ==
    /\ o.kind = "HttpError" /\ o.response = NoErrorResponse
    /\ o.value = NoValue

OutcomesOf(o, status) ==
    { k \in {"value", "api", "generic", "decode"} :
         \/ k = "value"   /\ DecodedValue(o)
         \/ k = "api"     /\ StructuredApiError(o, status)
         \/ k = "generic" /\ GenericError(o)
         \/ k = "decode"  /\ DecodeFailure(o) }

\* The body of an error response is read and is not a YandexApiErrorResponse.
StructuredParseFails ==
    /\ ~IsSuccess(cls.status) /\ cls.body.read
    /\ ~ErrorResponseFromStr(cls.body.text).ok

\* C27: once the response is there, the classifier ends (it neither hangs
\* nor stops without a result), its result is exactly one of a decoded
\* value, a structured API error, a generic API error and a decode failure,
\* that result is not replaced afterwards, and an error body that is not a
\* structured error gives the generic API error, never an error about the
\* parse.
C27_ClassifierEndsWithOneOutcome ==
    /\ <>cls.done
    /\ [](cls.done => Cardinality(OutcomesOf(cls.outcome, cls.status)) = 1)
    /\ [](cls.done /\ StructuredParseFails => GenericError(cls.outcome))
    /\ [](~cls.done => cls.outcome = NoOutcome)
    /\ [][cls.done => cls' = cls]_vars

\* A 500 whose body is HTML has been classified, as the generic error.
C27_Witness ==
    /\ cls.done /\ cls.status = 500 /\ cls.body = BodyText(BodyHtml)
    /\ StructuredParseFails
    /\ cls.outcome.kind = "GenericApiError"

\* The variants of YandexWebmasterError an operation has returned, and what
\* the call that returned one went through.
ReturnedKinds ==
    {"none", "Ok", "HttpError", "MiddlewareHttpError", "ParseError",
     "SerdeQsError", "ApiError", "GenericApiError"}

WasSent(c) == RequestsOf(wire, c) /= {}

GotResponse(call) == call.status /= 0

\* The call ended at the stage its error variant names.
StageOfError(c, call) ==
    /\ call.outcome.kind \in ReturnedKinds
    /\ call.pc /= "done" => call.outcome = NoOutcome
    /\ (call.pc = "done" /\ WasSent(c) /\ ~GotResponse(call)) =>
          call.outcome.kind = "MiddlewareHttpError"
    /\ (call.pc = "done" /\ ~WasSent(c) /\ TokenNotEncodable) =>
          call.outcome.kind = "MiddlewareHttpError"
    /\ (call.pc = "done" /\ ~WasSent(c) /\ ~TokenNotEncodable) =>
          call.outcome.kind = "ParseError"
    /\ (call.pc = "done" /\ GotResponse(call)) =>
          /\ WasSent(c)
          /\ call.outcome.kind \in {"Ok", "HttpError", "ApiError", "GenericApiError"}
          /\ call.outcome.kind = "HttpError" <=>
                /\ IsSuccess(call.status) /\ ReadsBody(call.op, call.status)
                /\ DecodeFails(call.op, call.body)
    /\ call.outcome.kind = "MiddlewareHttpError" =>
          ~GotResponse(call) /\ call.body = NoBody
    /\ call.outcome.kind = "ParseError" =>
          /\ MethodOf(call.op) = "POST"
          /\ ~WasSent(c) /\ ~GotResponse(call) /\ call.body = NoBody

Decodable(value) ==
    value.variant = "Unknown" => value.raw \notin ClosedSet

\* C29: a code that decoding can give (a unit variant, or Unknown(s) with s
\* no wire name), displayed and the displayed string decoded as an
\* error_code, is the same code again.  The match with the wire names is
\* exact: a code string decodes to Unknown exactly when it is not one of
\* the wire names, letter case and spaces included, and to the variant of
\* that wire name otherwise.
C29_DisplayThenDecodeIsTheCode ==
    /\ (dec.again.set /\ Decodable(dec.value)) =>
          /\ dec.again.out.ok
          /\ dec.again.out.error_code = dec.value
    /\ (dec.again.set /\ dec.mode = "decode") => Decodable(dec.value)
    /\ (dec.mode = "decode" /\ dec.done) =>
          /\ dec.out.error_code.variant = "Unknown" <=> dec.code \notin ClosedSet
          /\ dec.code \in ClosedSet => WireName[dec.out.error_code.variant] = dec.code
          /\ dec.code \in {"invalid_url", "InvalidUrl", "INVALID_URL "} =>
                dec.out.error_code = Unknown(dec.code)

\* Unknown("invalid_url") was displayed and the string decoded to it again.
C29_Witness ==
    /\ dec.mode = "display" /\ dec.again.set
    /\ dec.value = Unknown("invalid_url")
    /\ dec.shown = "invalid_url"
    /\ dec.again.out.error_code = Unknown("invalid_url")

(***************************************************************************)
(* Properties of a cloned client                                           *)
(***************************************************************************)
\* The request of the account's user sent by the call c for its method and
\* argument, as the client new returned sends it.
RequestOfOriginal(call) ==
    Send("y0_secret", BuildRequest(call.op, 42, call.arg)).req

\* Cloning sends nothing and leaves the client and its calls as they were.
CloningIsLocal ==
    (~clone.exists /\ clone'.exists) =>
       /\ wire' = wire /\ calls' = calls /\ client' = client
       /\ oauth_token' = oauth_token /\ boot' = boot

\* C30: the clone of a Ready client is a client with the user_id, the
\* credential and the encoder configuration of the original, and making it
\* sends no request: the request for the identity that new sent stays the
\* only one.  Whatever the order of the calls through the original and
\* through the clone, each sends the request the original sends for that
\* method and argument: Authorization is "OAuth <token>" and the path is
\* under /user/<user_id>/ of the one account.
C30_CloneIsTheSameClient ==
    /\ [](clone.exists =>
            /\ client.exists /\ client = ClientAsBuilt
            /\ clone.user_id = UserId
            /\ clone.qs = client.qs
            /\ clone.oauth_token = oauth_token)
    /\ [](/\ Cardinality({ i \in 1..Len(wire) : wire[i].req.url = UserUrl }) = 1
          /\ RequestsOf(wire, 0) = {1})
    /\ [](\A i \in 2..Len(wire) :
            /\ wire[i].from \in CallIds
            /\ wire[i].req = RequestOfOriginal(calls[wire[i].from])
            /\ HeaderValues(wire[i].req.headers, "authorization")
                 = << "OAuth y0_secret" >>
            /\ StartsWith(wire[i].req.url, API_BASE_URL \o "/user/42/"))
    /\ [](clone.calls \subseteq { c \in CallIds : calls[c].pc /= "idle" })
    /\ [][CloningIsLocal]_vars

\* The first call went through the clone and the second through the
\* original while the first was waiting; both requests are on the wire.
C30_Witness ==
    /\ clone.exists /\ clone.calls = {1}
    /\ calls[1].pc = "awaitResponse" /\ calls[2].pc = "awaitResponse"
    /\ Len(wire) = 3
    /\ wire[2].from = 1 /\ wire[3].from = 2

====
